---- MODULE Spec2Model ----
(***************************************************************************)
(* Session Engine of the voice-conversation gateway: the Nova Sonic        *)
(* bidirectional stream client (NovaSonicBidirectionalStreamClient and     *)
(* StreamSession) and the socket bridge of server.ts, for one client       *)
(* socket.  The session id is the socket id, so the registry holds at most *)
(* one session record at a time; records are numbered in creation order.   *)
(*                                                                         *)
(* One step of the model is one macrotask of the Node event loop: the code *)
(* from a client message, a timer or an I/O completion up to the next      *)
(* await of a timer or of I/O.                                             *)
(***************************************************************************)
EXTENDS Integers, Sequences, FiniteSets, TLC

\* ------------------------------------------------------------------ bounds
MaxInit == 2
MaxStop == 1
TdInit == 1
TdAudio == 1
TdStop == 1
OrdMsgs == 3
ReinitPulls == 8
MaxFlood == 201
FloodBurst == 6
MaxResp == 3
ReplacePulls == 3
ToolAudio == 2
MaxChunks == 14
Burst == 7
CancelMsgs == 2
WakeAudio == 2

\* ------------------------------------------------------- program constants
maxQueueSize == 200
maxChunksPerBatch == 5

MaxRec == MaxInit + 1
Recs == 1..MaxRec

\* ------------------------------------------------------------ identifiers
\* randomUUID() values: one record per identifier, never equal to another.
NoId == [t |-> "none", r |-> 0, n |-> 0]
PromptId(r) == [t |-> "prompt", r |-> r, n |-> 0]
AudioId(r) == [t |-> "audio", r |-> r, n |-> 0]
TextId(r, n) == [t |-> "text", r |-> r, n |-> n]
ToolId(r, n) == [t |-> "tool", r |-> r, n |-> n]

\* A tool name: its letters in lower case and the positions written in upper case.
ToolName(letters, caps) == [letters |-> letters, caps |-> caps]
NoName == ToolName("", {})

\* The content field of a toolUse event: its JavaScript type and, for a string, what
\* JSON.parse makes of it ("value": a value other than null, whose properties latitude
\* and longitude read as given, "undefined" for one it has not; "null"; "error": the
\* text is no JSON).
Content(type, json, latitude, longitude) ==
    [type |-> type, json |-> json, latitude |-> latitude, longitude |-> longitude]
NoContent == Content("undefined", "", "undefined", "undefined")

\* An outbound event; sn is its position in the enqueue history of the record; type and
\* role are those of a contentStart.
Ev(kind, p, c, d) == [kind |-> kind, promptName |-> p, contentName |-> c, data |-> d, sn |-> 0,
                      type |-> "", role |-> ""]

ContentStart(p, c, type, role, d) == [Ev("contentStart", p, c, d) EXCEPT !.type = type, !.role = role]

\* Buffer.from([0, 0, 0, 0]): the sentinel chunk, distinct from client chunks 1, 2, ...
Sentinel == 0

VARIABLES
    sess,                      \* session records (SessionData), by creation number
    activeSessions,            \* registry: the record registered under the socket id, 0 if none
    sessionLastActivity,       \* the last-activity map's entry for the id: "none", or its age
                               \* against the idle threshold, "recent" or "old"
    sessionCleanupInProgress,  \* whether the cleanup set holds the id
    streams,                   \* StreamSession objects, one per record
    streamSession,             \* the bridge's streamSession variable: the StreamSession in use
    drainTimers,               \* pending setTimeout(processAudioQueue, 0) per StreamSession
    tasks,                     \* running teardown sequences
    inits,                     \* running initSession handlers
    consumers,                 \* queue consumers (request-body iterators), one per handler
    emitted,                   \* what the bridge has emitted on the client socket, in order
    exited,                    \* the Node process has terminated on an unhandled rejection
    sent                       \* client messages sent so far

vars == <<sess, activeSessions, sessionLastActivity, sessionCleanupInProgress, streams,
          streamSession, drainTimers, tasks, inits, consumers, emitted, exited, sent>>

\* The client object and the bridge's StreamSession objects as one value, so that an
\* operation of the code is an operator from this value to this value.
World == [sess |-> sess, activeSessions |-> activeSessions,
          sessionLastActivity |-> sessionLastActivity,
          sessionCleanupInProgress |-> sessionCleanupInProgress,
          streams |-> streams, streamSession |-> streamSession,
          drainTimers |-> drainTimers, tasks |-> tasks, inits |-> inits,
          consumers |-> consumers, emitted |-> emitted, exited |-> exited]

\* created and replaced are history: the record exists, and createStreamSession found it
\* registered when it made the next one. aged: the record was created more than the idle
\* threshold ago; forceClosed: who force-closed it, "" if nobody.
\* throwing and anyHandler stand for responseHandlers beyond what the bridge registers: the
\* event types whose registered handler throws, and whether an 'any' handler is registered.
NoSession == [created |-> FALSE, replaced |-> FALSE, aged |-> FALSE, forceClosed |-> "",
              throwing |-> {}, anyHandler |-> FALSE,
              queue |-> <<>>, log |-> <<>>, isActive |-> FALSE,
              isPromptStartSent |-> FALSE, isAudioContentStartSent |-> FALSE,
              activePromptIds |-> {}, activeContentIds |-> {},
              closeSignal |-> FALSE, queueSignal |-> 0,
              toolUseId |-> 0, toolName |-> NoName, toolUseContent |-> NoContent,
              promptName |-> NoId, audioContentId |-> NoId]

NewSession(r) == [NoSession EXCEPT !.created = TRUE, !.isActive = TRUE,
                                   !.promptName = PromptId(r), !.audioContentId = AudioId(r)]

\* running: the drain loops in flight. History: loops, the most drain loops there were in
\* flight at one time; accepted, the chunks streamAudio was called with on this
\* StreamSession.
NoStream == [isActive |-> FALSE, audioBufferQueue |-> <<>>, isProcessingAudio |-> FALSE,
             running |-> 0, loops |-> 0, accepted |-> {}]
NewStream == [NoStream EXCEPT !.isActive = TRUE]

\* ------------------------------------------------------------ the client
\* The event types the bridge registers a handler for on every record it creates; each
\* handler emits the event on the client socket.
Handlers == {"contentStart", "textOutput", "audioOutput", "error", "toolUse", "toolResult",
             "contentEnd", "streamComplete"}

\* An emission on the socket: the event type, the initSession handler h whose stream it
\* comes from (0: none), the record r whose handler was called (0: emitted by the bridge
\* itself) and what the event is about.
Emit(eventType, h, r, d) == [type |-> eventType, h |-> h, r |-> r, d |-> d]

\* The payload of an emission as far as it is looked at: its source or type field, and
\* the toolUseId it carries (0: none).
Data(source, toolUseId) == [source |-> source, toolUseId |-> toolUseId]

\* The handler registered for the event type is called; if it throws, the exception is
\* caught and logged, which leaves no trace in the state.
callHandler(W, eventType, h, d) ==
    IF eventType \notin Handlers THEN W
    ELSE [W EXCEPT !.emitted = Append(@, Emit(eventType, h, W.activeSessions, d))]

\* The 'any' handler, if one is registered, is called with the type of the event.
callAnyHandler(W, eventType, h, d) ==
    IF ~W.sess[W.activeSessions].anyHandler THEN W
    ELSE [W EXCEPT !.emitted = Append(@, Emit("any", h, W.activeSessions,
                                              Data(eventType, d.toolUseId)))]

\* A dispatch that lets the exception of the kind-specific handler escape.
DispatchUncaught(W, eventType, h, d) ==
    IF W.activeSessions = 0 THEN W
    ELSE IF eventType \in W.sess[W.activeSessions].throwing
    THEN callHandler(W, eventType, h, d)
    ELSE callAnyHandler(callHandler(W, eventType, h, d), eventType, h, d)

dispatchEvent(W, eventType, h, d) ==
    IF W.activeSessions = 0 THEN W
    ELSE callAnyHandler(callHandler(W, eventType, h, d), eventType, h, d)

dispatchEventForSession(W, eventType, h, d) ==
    IF W.activeSessions = 0 THEN W
    ELSE callAnyHandler(callHandler(W, eventType, h, d), eventType, h, d)

\* registerEventHandler with a handler that throws (throws = TRUE) or one that returns;
\* with no record under the id it throws to its caller.
registerEventHandler(W, eventType, throws) ==
    LET r == W.activeSessions IN
    IF r = 0 THEN W
    ELSE IF eventType = "any" THEN [W EXCEPT !.sess[r].anyHandler = TRUE]
    ELSE [W EXCEPT !.sess[r].throwing =
                       IF throws THEN @ \cup {eventType} ELSE @ \ {eventType}]

isSessionActive(W) == W.activeSessions # 0 /\ W.sess[W.activeSessions].isActive

\* An append that does not look at the record's isActive flag.
AddWhileInactive(W, ev) ==
    LET r == W.activeSessions IN
    IF r = 0 THEN W
    ELSE LET e == [ev EXCEPT !.sn = Len(W.sess[r].log) + 1] IN
         [W EXCEPT !.sessionLastActivity = "recent",
                   !.sess[r].queue = Append(@, e),
                   !.sess[r].log = Append(@, e),
                   !.sess[r].queueSignal = @ + 1]

addEventToSessionQueue(W, ev) ==
    LET r == W.activeSessions IN
    IF r = 0 \/ ~W.sess[r].isActive THEN W
    ELSE LET e == [ev EXCEPT !.sn = Len(W.sess[r].log) + 1] IN
         [W EXCEPT !.sessionLastActivity = "recent",
                   !.sess[r].queue = Append(@, e),
                   !.sess[r].log = Append(@, e),
                   !.sess[r].queueSignal = @ + 1]

setupSessionStartEvent(W) ==
    LET r == W.activeSessions IN
    IF r = 0 THEN W
    ELSE LET W1 == [W EXCEPT !.sess[r].queue = <<>>]
             W2 == addEventToSessionQueue(W1, Ev("sessionStart", NoId, NoId, 0))
         IN [W2 EXCEPT !.sess[r].queueSignal = @ + 1]

setupPromptStartEvent(W) ==
    LET r == W.activeSessions IN
    IF r = 0 THEN W
    ELSE LET W1 == addEventToSessionQueue(W, Ev("promptStart", W.sess[r].promptName, NoId, 0))
         IN [W1 EXCEPT !.sess[r].activePromptIds = @ \cup {W.sess[r].promptName},
                       !.sess[r].isPromptStartSent = TRUE]

\* A system prompt whose text content is left open.
SystemPromptUnclosed(W) ==
    LET r == W.activeSessions IN
    IF r = 0 THEN W
    ELSE LET textPromptID == TextId(r, Len(W.sess[r].log))
             p == W.sess[r].promptName
             W1 == addEventToSessionQueue(W, ContentStart(p, textPromptID, "TEXT", "SYSTEM", 0))
         IN addEventToSessionQueue(W1, Ev("textInput", p, textPromptID, 0))

setupSystemPromptEvent(W) ==
    LET r == W.activeSessions IN
    IF r = 0 THEN W
    ELSE LET textPromptID == TextId(r, Len(W.sess[r].log))
             p == W.sess[r].promptName
             W1 == addEventToSessionQueue(W, ContentStart(p, textPromptID, "TEXT", "SYSTEM", 0))
             W2 == addEventToSessionQueue(W1, Ev("textInput", p, textPromptID, 0))
             W3 == addEventToSessionQueue(W2, Ev("contentEnd", p, textPromptID, 0))
         IN [W3 EXCEPT !.sess[r].activeContentIds = @ \ {textPromptID}]

setupStartAudioEvent(W) ==
    LET r == W.activeSessions IN
    IF r = 0 THEN W
    ELSE LET W1 == addEventToSessionQueue(W,
                      ContentStart(W.sess[r].promptName, W.sess[r].audioContentId,
                                   "AUDIO", "USER", 0))
         IN [W1 EXCEPT !.sess[r].activeContentIds = @ \cup {W.sess[r].audioContentId},
                       !.sess[r].isAudioContentStartSent = TRUE]

\* streamAudioChunk throws "Invalid session" unless this holds.
streamAudioChunkOk(W) == isSessionActive(W)

streamAudioChunk(W, d) ==
    LET r == W.activeSessions IN
    addEventToSessionQueue(W, Ev("audioInput", W.sess[r].promptName, W.sess[r].audioContentId, d))

\* A tool result whose content is closed before the result is enqueued.
ToolResultAfterEnd(W, toolUseId) ==
    LET r == W.activeSessions IN
    IF r = 0 \/ ~W.sess[r].isActive THEN W
    ELSE LET contentId == ToolId(r, Len(W.sess[r].log))
             p == W.sess[r].promptName
             W1 == addEventToSessionQueue(W, ContentStart(p, contentId, "TOOL", "TOOL", toolUseId))
             W2 == addEventToSessionQueue(W1, Ev("contentEnd", p, contentId, 0))
         IN addEventToSessionQueue(W2, Ev("toolResult", p, contentId, toolUseId))

sendToolResult(W, toolUseId) ==
    LET r == W.activeSessions IN
    IF r = 0 \/ ~W.sess[r].isActive THEN W
    ELSE LET contentId == ToolId(r, Len(W.sess[r].log))
             p == W.sess[r].promptName
             W1 == addEventToSessionQueue(W, ContentStart(p, contentId, "TOOL", "TOOL", toolUseId))
             W2 == addEventToSessionQueue(W1, Ev("toolResult", p, contentId, toolUseId))
         IN addEventToSessionQueue(W2, Ev("contentEnd", p, contentId, 0))

\* A createStreamSession that registers the new record and leaves the old one active.
CreateKeepingOld(W) ==
    LET old == W.activeSessions
        r == Cardinality({x \in Recs : W.sess[x].created}) + 1
        W1 == IF old # 0 THEN [W EXCEPT !.sess[old].replaced = TRUE] ELSE W
    IN [W1 EXCEPT !.sess[r] = NewSession(r), !.activeSessions = r,
                  !.streams[r] = NewStream, !.streamSession = r]

createStreamSession(W) ==
    LET old == W.activeSessions
        r == Cardinality({x \in Recs : W.sess[x].created}) + 1
        W1 == IF old # 0 THEN [W EXCEPT !.sess[old].isActive = FALSE, !.activeSessions = 0,
                                        !.sess[old].replaced = TRUE]
              ELSE W
    IN [W1 EXCEPT !.sess[r] = NewSession(r), !.activeSessions = r,
                  !.streams[r] = NewStream, !.streamSession = r]

\* ------------------------------------------------------- StreamSession
\* streamAudio's bound on audioBufferQueue: at maxQueueSize the oldest chunk is shifted out.
pushAudio(W, s, chunk) ==
    [W EXCEPT !.streams[s].audioBufferQueue =
                 Append(IF Len(@) >= maxQueueSize THEN Tail(@) ELSE @, chunk),
              !.streams[s].accepted = @ \cup {chunk}]

\* The while loop of processAudioQueue after `processed` chunks; a throw of
\* streamAudioChunk leaves the loop with the shifted chunk lost and rejects the promise
\* of processAudioQueue, which nobody awaits or catches: the process terminates once the
\* turn of the event loop is over.
RECURSIVE drainLoop(_, _, _)
drainLoop(W, s, processed) ==
    IF Len(W.streams[s].audioBufferQueue) > 0 /\ processed < maxChunksPerBatch
       /\ W.streams[s].isActive
    THEN LET audioChunk == Head(W.streams[s].audioBufferQueue)
             W1 == [W EXCEPT !.streams[s].audioBufferQueue = Tail(@)]
         IN IF streamAudioChunkOk(W1)
            THEN drainLoop(streamAudioChunk(W1, audioChunk), s, processed + 1)
            ELSE [W1 EXCEPT !.exited = TRUE]
    ELSE W

\* A processAudioQueue without the isProcessingAudio test: every call starts a loop.
ProcessAudioQueueUnguarded(W, s) ==
    IF Len(W.streams[s].audioBufferQueue) = 0 \/ ~W.streams[s].isActive
    THEN W
    ELSE LET audioChunk == Head(W.streams[s].audioBufferQueue)
             W1 == [W EXCEPT !.streams[s].isProcessingAudio = TRUE,
                             !.streams[s].running = @ + 1,
                             !.streams[s].loops = IF @ > W.streams[s].running THEN @
                                                  ELSE W.streams[s].running + 1,
                             !.streams[s].audioBufferQueue = Tail(@)]
         IN IF streamAudioChunkOk(W1) THEN streamAudioChunk(W1, audioChunk)
            ELSE [W1 EXCEPT !.exited = TRUE]

\* A call of processAudioQueue up to its first await: nothing when a loop is running
\* (isProcessingAudio), the queue is empty or the StreamSession is closed; else the flag
\* is set and the loop shifts its first chunk and calls streamAudioChunk, whose promise
\* it awaits. running counts the loops in flight, loops the most there were at a time.
processAudioQueue(W, s) ==
    IF W.streams[s].isProcessingAudio \/ Len(W.streams[s].audioBufferQueue) = 0
       \/ ~W.streams[s].isActive
    THEN W
    ELSE LET audioChunk == Head(W.streams[s].audioBufferQueue)
             W1 == [W EXCEPT !.streams[s].isProcessingAudio = TRUE,
                             !.streams[s].running = @ + 1,
                             !.streams[s].loops = IF @ > W.streams[s].running THEN @
                                                  ELSE W.streams[s].running + 1,
                             !.streams[s].audioBufferQueue = Tail(@)]
         IN IF streamAudioChunkOk(W1) THEN streamAudioChunk(W1, audioChunk)
            ELSE [W1 EXCEPT !.exited = TRUE]

\* The streamAudio calls of one macrotask, one per chunk: each pushes its chunk and calls
\* processAudioQueue without awaiting it.
RECURSIVE pushAll(_, _, _)
pushAll(W, s, chunks) ==
    IF chunks = <<>> THEN W
    ELSE pushAll(processAudioQueue(pushAudio(W, s, Head(chunks)), s), s, Tail(chunks))

\* The microtasks that follow: the suspended loop resumes and runs to its end (a rejected
\* streamAudioChunk throws at the await), then the finally block resets the flag and
\* schedules the next batch.
drainFinally(W, s) ==
    IF ~W.streams[s].isProcessingAudio THEN W
    ELSE LET W1 == IF W.exited THEN W ELSE drainLoop(W, s, 1)
             W2 == [W1 EXCEPT !.streams[s].isProcessingAudio = FALSE,
                              !.streams[s].running = 0]
         IN IF Len(W2.streams[s].audioBufferQueue) > 0 /\ W2.streams[s].isActive
            THEN [W2 EXCEPT !.drainTimers[s] = @ + 1]
            ELSE W2

\* The audioInput handler for the chunks of one macrotask, on the socket's StreamSession.
streamAudio(W, chunks) ==
    LET s == W.streamSession IN drainFinally(pushAll(W, s, chunks), s)

\* ------------------------------------------------- initiateSession, start
\* createStreamSession for a new initSession request, then initiateSession up to its
\* first pause: the queue and the tracking state are reset and sessionStart is seeded.
initiateSessionStart(W, h) ==
    LET W1 == createStreamSession(W)
        r == W1.activeSessions
        W2 == [W1 EXCEPT !.sess[r].queue = <<>>,
                         !.sess[r].activePromptIds = {},
                         !.sess[r].activeContentIds = {},
                         !.sess[r].isPromptStartSent = FALSE,
                         !.sess[r].isAudioContentStartSent = FALSE]
        W3 == setupSessionStartEvent(W2)
    IN [W3 EXCEPT !.inits[h].pc = "step2", !.inits[h].s = r]

\* ------------------------------------------------------- teardown sequences
\* A teardown sequence is one run of: sendContentEnd, sendPromptEnd, sendSessionEnd.
\*   stop  socket.on('stopAudio')            disc  socket.on('disconnect')
\*   init  the cleanup at the head of socket.on('initSession')
\*   close closeSession                      end   initiateSession after the response stream
TaskIds == ({"stop"} \X (1..MaxStop)) \cup ({"disc"} \X {0}) \cup ({"close"} \X (0..MaxInit))
           \cup ({"init", "end"} \X (1..MaxInit))

\* deadline: the timer the sequence is raced against is pending.
NoTask == [pc |-> "none", s |-> 0, contentEntries |-> <<>>, inline |-> FALSE,
           threw |-> FALSE, out |-> <<>>, deadline |-> FALSE]

Kind(tid) == tid[1]

RECURSIVE SeqOf(_)
SeqOf(S) == IF S = {} THEN <<>> ELSE LET x == CHOOSE y \in S : TRUE IN <<x>> \o SeqOf(S \ {x})

\* stopAudio, disconnect and initSession go through the StreamSession, whose methods
\* return at once when the StreamSession is no longer active.
StreamOk(W, tid) ==
    Kind(tid) \in {"close", "end"} \/ W.streams[W.streamSession].isActive

\* The step ended in the wait of a timer.
Wait(W, tid, pc) == [W EXCEPT !.tasks[tid].pc = pc, !.tasks[tid].inline = FALSE]

\* The operation returned without a timer: only the initSession cleanup has no pause of
\* its own before the next operation.
ReturnNow(W, tid, pc) ==
    [W EXCEPT !.tasks[tid].pc = pc, !.tasks[tid].inline = (Kind(tid) = "init")]

Done(W, tid) ==
    [W EXCEPT !.tasks[tid].pc = "done", !.tasks[tid].inline = FALSE,
              !.sessionCleanupInProgress = IF Kind(tid) = "close" THEN FALSE ELSE @]

\* streamAudioChunk threw "Invalid session" inside the sequence.
Threw(W, tid, pc) ==
    LET W1 == [W EXCEPT !.tasks[tid].threw = TRUE] IN
    CASE Kind(tid) = "stop" ->
            Done([W1 EXCEPT !.emitted = Append(@, Emit("error", 0, 0, Data("stopAudio", 0)))],
                 tid)
      [] Kind(tid) \in {"disc", "init"} ->
            [W1 EXCEPT !.tasks[tid].pc = pc, !.tasks[tid].inline = TRUE]
      [] Kind(tid) = "close" ->
            LET r == W1.activeSessions
                W2 == IF r = 0 THEN W1
                      ELSE [W1 EXCEPT !.sess[r].isActive = FALSE, !.activeSessions = 0,
                                      !.sessionLastActivity = "none"]
            IN Done(W2, tid)
      [] OTHER ->
            LET W2 == [W1 EXCEPT !.sess[W1.inits[tid[2]].s].isActive = FALSE]
                W3 == dispatchEvent(W2, "error", tid[2], Data("bidirectionalStream", 0))
            IN Done(dispatchEventForSession(W3, "error", tid[2], Data("bidirectionalStream", 0)),
                    tid)

\* initiateSession after processResponseStream: the final sentinel chunk.
finalAudioChunk(W, tid) ==
    IF streamAudioChunkOk(W) THEN Wait(streamAudioChunk(W, Sentinel), tid, "ce0")
    ELSE Threw(W, tid, "done")

\* sendContentEnd up to its first pause.
sendContentEnd(W, tid) ==
    LET r == W.activeSessions IN
    IF ~StreamOk(W, tid) \/ r = 0 THEN ReturnNow(W, tid, "pe0")
    ELSE IF W.sess[r].activeContentIds # {}
    THEN LET entries == SeqOf(W.sess[r].activeContentIds)
             W1 == [W EXCEPT !.tasks[tid].s = r, !.tasks[tid].contentEntries = entries]
         IN IF W.sess[r].audioContentId \in W.sess[r].activeContentIds
            THEN IF streamAudioChunkOk(W1)
                 THEN Wait(streamAudioChunk(W1, Sentinel), tid, "ce1")
                 ELSE Threw(W1, tid, "pe0")
            ELSE [W1 EXCEPT !.tasks[tid].pc = "ce1", !.tasks[tid].inline = TRUE]
    ELSE IF W.sess[r].isAudioContentStartSent
    THEN IF streamAudioChunkOk(W)
         THEN Wait(streamAudioChunk([W EXCEPT !.tasks[tid].s = r], Sentinel), tid, "ce1b")
         ELSE Threw(W, tid, "pe0")
    ELSE Wait(W, tid, "pe0")

\* sendContentEnd: one round of the loop over the copied entries.
sendContentEndLoop(W, tid) ==
    LET t == W.tasks[tid]
        contentId == Head(t.contentEntries)
        W1 == addEventToSessionQueue(W, Ev("contentEnd", W.sess[t.s].promptName, contentId, 0))
        W2 == [W1 EXCEPT !.sess[t.s].activeContentIds = @ \ {contentId},
                         !.tasks[tid].contentEntries = Tail(@)]
    IN Wait(W2, tid, IF Tail(t.contentEntries) = <<>> THEN "pe0" ELSE "ce1")

\* sendContentEnd: the branch taken when nothing is tracked and the audio flag is set.
sendContentEndCompat(W, tid) ==
    LET t == W.tasks[tid] IN
    Wait(addEventToSessionQueue(W,
            Ev("contentEnd", W.sess[t.s].promptName, W.sess[t.s].audioContentId, 0)),
         tid, "pe0")

RECURSIVE promptEndAll(_, _)
promptEndAll(W, ids) ==
    IF ids = <<>> THEN W
    ELSE promptEndAll(addEventToSessionQueue(W, Ev("promptEnd", Head(ids), NoId, 0)), Tail(ids))

sendPromptEnd(W, tid) ==
    LET r == W.activeSessions IN
    IF ~StreamOk(W, tid) \/ r = 0 THEN ReturnNow(W, tid, "se0")
    ELSE IF ~W.sess[r].isPromptStartSent THEN ReturnNow(W, tid, "se0")
    ELSE IF W.sess[r].activePromptIds # {}
    THEN LET W1 == promptEndAll(W, SeqOf(W.sess[r].activePromptIds))
         IN Wait([W1 EXCEPT !.sess[r].activePromptIds = {}], tid, "se0")
    ELSE Wait(addEventToSessionQueue(W, Ev("promptEnd", W.sess[r].promptName, NoId, 0)),
              tid, "se0")

\* StreamSession.close and sendSessionEnd up to the pause after the enqueue.
sendSessionEnd(W, tid) ==
    IF Kind(tid) = "end" \/ ~StreamOk(W, tid) THEN Done(W, tid)
    ELSE LET s == W.streamSession
             W1 == IF Kind(tid) = "close" THEN W
                   ELSE [W EXCEPT !.streams[s].isActive = FALSE,
                                  !.streams[s].audioBufferQueue = <<>>]
             r == W1.activeSessions
         IN IF r = 0 THEN Done(W1, tid)
            ELSE Wait(addEventToSessionQueue([W1 EXCEPT !.tasks[tid].s = r],
                                             Ev("sessionEnd", NoId, NoId, 0)),
                      tid, "se1")

\* sendSessionEnd after its pause: "now it's safe to clean up".
sendSessionEndCleanup(W, tid) ==
    LET t == W.tasks[tid] IN
    Done([W EXCEPT !.sess[t.s].isActive = FALSE, !.sess[t.s].closeSignal = TRUE,
                   !.activeSessions = 0, !.sessionLastActivity = "none"], tid)

TaskPhase(W, tid) ==
    CASE W.tasks[tid].pc = "end0" -> finalAudioChunk(W, tid)
      [] W.tasks[tid].pc = "ce0" -> sendContentEnd(W, tid)
      [] W.tasks[tid].pc = "ce1" -> sendContentEndLoop(W, tid)
      [] W.tasks[tid].pc = "ce1b" -> sendContentEndCompat(W, tid)
      [] W.tasks[tid].pc = "pe0" -> sendPromptEnd(W, tid)
      [] W.tasks[tid].pc = "se0" -> sendSessionEnd(W, tid)
      [] W.tasks[tid].pc = "se1" -> sendSessionEndCleanup(W, tid)

\* History: the events a step of the sequence appended to a queue.
RECURSIVE NewEvents(_, _, _)
NewEvents(W, W1, r) ==
    IF r > MaxRec THEN <<>>
    ELSE SubSeq(W1.sess[r].log, Len(W.sess[r].log) + 1, Len(W1.sess[r].log))
         \o NewEvents(W, W1, r + 1)

\* W1 ranges over a one-element set, so that it is one value and not an expression.
TaskStep(W, tid) ==
    CHOOSE V \in {[W1 EXCEPT !.tasks[tid].out = @ \o NewEvents(W, W1, 1)] :
                     W1 \in {TaskPhase(W, tid)}} : TRUE

\* One macrotask of a sequence: steps up to the next timer.
RECURSIVE RunTask(_, _)
RunTask(W, tid) ==
    CHOOSE V \in {IF W1.tasks[tid].inline THEN RunTask(W1, tid) ELSE W1 :
                     W1 \in {TaskStep(W, tid)}} : TRUE

\* What the owner of a finished sequence does next, in the same macrotask.
AfterTask(W, tid) ==
    IF W.tasks[tid].pc # "done" THEN W
    ELSE CASE Kind(tid) = "init" -> initiateSessionStart(W, tid[2])
           [] Kind(tid) = "end" -> [W EXCEPT !.inits[tid[2]].pc = "ack"]
           [] OTHER -> W

StartTask(W, tid, pc) ==
    AfterTask(RunTask([W EXCEPT !.tasks[tid] = [NoTask EXCEPT !.pc = pc]], tid), tid)

closeSession(W, tid) ==
    IF W.sessionCleanupInProgress THEN W
    ELSE StartTask([W EXCEPT !.sessionCleanupInProgress = TRUE], tid, "ce0")

\* A force close that does not look at the cleanup-in-progress set.
ForceCloseDuringCleanup(W) ==
    LET r == W.activeSessions IN
    IF r = 0 THEN W
    ELSE [W EXCEPT !.sess[r].isActive = FALSE, !.sess[r].closeSignal = TRUE,
                   !.activeSessions = 0, !.sessionLastActivity = "none",
                   !.sessionCleanupInProgress = FALSE]

\* A force close that also empties the record's queue and forgets what it has open.
ForceCloseDroppingQueue(W) ==
    LET r == W.activeSessions IN
    IF W.sessionCleanupInProgress \/ r = 0 THEN W
    ELSE [W EXCEPT !.sess[r].isActive = FALSE, !.sess[r].closeSignal = TRUE,
                   !.sess[r].queue = <<>>, !.sess[r].activeContentIds = {},
                   !.sess[r].activePromptIds = {},
                   !.activeSessions = 0, !.sessionLastActivity = "none",
                   !.sessionCleanupInProgress = FALSE]

\* The id enters the cleanup set and leaves it again in the finally block.
forceCloseSession(W) ==
    LET r == W.activeSessions IN
    IF W.sessionCleanupInProgress \/ r = 0 THEN W
    ELSE [W EXCEPT !.sess[r].isActive = FALSE, !.sess[r].closeSignal = TRUE,
                   !.activeSessions = 0, !.sessionLastActivity = "none",
                   !.sessionCleanupInProgress = FALSE]

\* History: the caller by force-closed the record that was registered in W.
Forced(W, W1, by) ==
    IF W.activeSessions # 0 /\ W1.activeSessions = 0
    THEN [W1 EXCEPT !.sess[W.activeSessions].forceClosed = by]
    ELSE W1

getLastActivityTime(W) == IF W.sessionLastActivity = "none" THEN "old" ELSE W.sessionLastActivity

\* One tick of the bridge's idle sweeper: a registered id whose last activity lies more
\* than SESSION_TIMEOUT back is force-closed; a missing entry reads as time 0.
\* A sweeper that looks at active sessions only.
SweepActiveOnly(W) ==
    IF isSessionActive(W) /\ getLastActivityTime(W) = "old"
    THEN Forced(W, forceCloseSession(W), "sweeper")
    ELSE W

sweep(W) ==
    IF W.activeSessions # 0 /\ getLastActivityTime(W) = "old"
    THEN Forced(W, forceCloseSession(W), "sweeper")
    ELSE W

\* socket.on('disconnect'): nothing unless the session is active; else the ordered
\* cleanup, raced against a timer.
disconnect(W) ==
    IF isSessionActive(W)
    THEN LET W1 == StartTask(W, <<"disc", 0>>, "ce0") IN
         [W1 EXCEPT !.tasks[<<"disc", 0>>].deadline = TRUE]
    ELSE W

\* The timer of the race fires: the race is lost only if the cleanup has not finished.
cleanupTimeout(W) ==
    LET W1 == [W EXCEPT !.tasks[<<"disc", 0>>].deadline = FALSE] IN
    IF W.tasks[<<"disc", 0>>].pc = "done" THEN W1
    ELSE Forced(W1, forceCloseSession(W1), "deadline")

\* ------------------------------------------------------ initSession handler
\* pc: where the handler stands; s: the record initiateSession holds; rs: the record
\* processResponseStream holds; n: inbound events received; inbox: inbound events not yet
\* read; outcome: how the upstream stream ended; settled: the tool uses whose invocation
\* has returned or thrown.
NoInit == [pc |-> "idle", s |-> 0, rs |-> 0, n |-> 0, inbox |-> <<>>, outcome |-> "none",
           settled |-> {}, warning |-> FALSE]

\* The body of socket.on('audioInput'). audioData is "buffer" when Buffer.from accepts the
\* payload, and the chunks are streamed; it is "rejected" when Buffer.from throws: the
\* handler's catch emits an error and nothing else happens.
audioInput(W, audioData, chunks) ==
    IF audioData = "buffer"
    THEN streamAudio(W, chunks)
    ELSE [W EXCEPT !.emitted = Append(@, Emit("error", 0, 0, Data("audio", 0)))]

\* socket.on('initSession') up to its first pause. data is the payload of the message:
\* "none" when the client sent none (undefined or null); "prompt" when its prompt is a
\* string or is falsy, DefaultSystemPrompt standing in for a falsy one; "nonString" when
\* its prompt is truthy and not a string. DefaultSystemPrompt is a non-empty string, so
\* of the first test only the missing payload is refused: the handler emits an error and
\* returns. A prompt that is not a string has no substring method: the TypeError is
\* caught by the handler's outer catch, which emits an error. Nothing else changes in
\* either case.
initSession(W, h, data) ==
    IF data = "none"
    THEN [W EXCEPT !.emitted = Append(@, Emit("error", 0, 0, Data("noPrompt", 0)))]
    ELSE IF data = "nonString"
    THEN [W EXCEPT !.emitted = Append(@, Emit("error", 0, 0, Data("initSequence", 0)))]
    ELSE IF isSessionActive(W)
         THEN StartTask([W EXCEPT !.inits[h].pc = "pre"], <<"init", h>>, "ce0")
         ELSE initiateSessionStart(W, h)

\* The outer catch of initiateSession: closeSession is started and not awaited.
initiateSessionCatch(W, h) ==
    LET W1 == dispatchEventForSession([W EXCEPT !.inits[h].pc = "ack"], "error", h,
                                      Data("bidirectionalStream", 0))
    IN IF W.sess[W.inits[h].s].isActive THEN closeSession(W1, <<"close", h>>) ELSE W1

\* Step 5 of initiateSession: the first sentinel chunk.
initiateSessionChunk(W, h) ==
    IF streamAudioChunkOk(W)
    THEN [streamAudioChunk(W, Sentinel) EXCEPT !.inits[h].pc = "check"]
    ELSE initiateSessionCatch(W, h)

\* "Double check our tracking objects", on the record initiateSession holds.
initiateSessionCheck(W, h) ==
    LET s == W.inits[h].s IN
    [W EXCEPT !.sess[s].activePromptIds =
                  IF @ = {} THEN {W.sess[s].promptName} ELSE @,
              !.sess[s].activeContentIds = @ \cup {W.sess[s].audioContentId},
              !.inits[h].pc = "iter"]

NoConsumer == [state |-> "none", s |-> 0, eventCount |-> 0, sub |-> 0, ord |-> 0, yielded |-> <<>>]

\* An iterable that seeds sessionStart whether or not the queue is empty.
IterableAlwaysSeeding(W, h) ==
    IF ~isSessionActive(W) THEN [W EXCEPT !.consumers[h].state = "done", !.consumers[h].ord = 0]
    ELSE LET r == W.activeSessions
             W1 == [W EXCEPT !.sess[r].activeContentIds = @ \cup {W.sess[r].audioContentId}]
         IN [setupSessionStartEvent(W1) EXCEPT
                !.consumers[h] = [NoConsumer EXCEPT !.state = "idle", !.s = r]]

createSessionAsyncIterable(W, h) ==
    IF ~isSessionActive(W) THEN [W EXCEPT !.consumers[h].state = "done", !.consumers[h].ord = 0]
    ELSE LET r == W.activeSessions
             W1 == [W EXCEPT !.sess[r].activeContentIds = @ \cup {W.sess[r].audioContentId}]
             W2 == IF W1.sess[r].queue = <<>> THEN setupSessionStartEvent(W1) ELSE W1
         IN [W2 EXCEPT !.consumers[h] = [NoConsumer EXCEPT !.state = "idle", !.s = r]]

\* initiateSession from createSessionAsyncIterable to the send of the command.
initiateSessionOpen(W, h) ==
    LET W1 == createSessionAsyncIterable(W, h) IN
    IF W1.sess[W1.inits[h].s].queue = <<>>
    THEN initiateSessionCatch([W1 EXCEPT !.consumers[h].state = "done"], h)
    ELSE [W1 EXCEPT !.inits[h].pc = "opening"]

\* initiateSession after processResponseStream returned.
initiateSessionAfterStream(W, h) ==
    IF W.sess[W.inits[h].s].isActive
    THEN StartTask([W EXCEPT !.inits[h].pc = "end"], <<"end", h>>, "end0")
    ELSE [W EXCEPT !.inits[h].pc = "ack"]

\* The send of the command resolved: processResponseStream starts on the record
\* registered under the id now, and returns at once when there is none.
processResponseStreamStart(W, h) ==
    IF W.activeSessions = 0
    THEN initiateSessionAfterStream([W EXCEPT !.inits[h].outcome = "unread"], h)
    ELSE [W EXCEPT !.inits[h].pc = "reading", !.inits[h].rs = W.activeSessions,
                   !.inits[h].warning = TRUE]

\* The 10 s timer of processResponseStream fires: it was cleared if an inbound event has
\* been read, and else dispatches a warning, also when the stream has ended meanwhile.
processResponseStreamTimeout(W, h) ==
    dispatchEvent([W EXCEPT !.inits[h].warning = FALSE], "warning", h,
                  Data("responseStream", 0))

\* The send of the command rejected or timed out: the inner catch marks the record
\* inactive and dispatches, the outer catch dispatches again and finds nothing to close.
initiateSessionApiError(W, h) ==
    LET W1 == [W EXCEPT !.sess[W.inits[h].s].isActive = FALSE,
                        !.inits[h].outcome = "openfail"]
        W2 == dispatchEvent(W1, "error", h, Data("bidirectionalStream", 0))
    IN initiateSessionCatch(W2, h)

\* processResponseStream after its loop: streamComplete, and back in initiateSession.
processResponseStreamEnd(W, h) ==
    LET W1 == [W EXCEPT !.inits[h].outcome = "clean", !.inits[h].inbox = <<>>]
    IN initiateSessionAfterStream(dispatchEvent(W1, "streamComplete", h, Data("", 0)), h)

\* The response body threw while it was read: the catch of processResponseStream.
processResponseStreamError(W, h) ==
    LET W1 == [W EXCEPT !.inits[h].outcome = "readerror", !.inits[h].inbox = <<>>]
    IN initiateSessionAfterStream(dispatchEvent(W1, "error", h, Data("responseStream", 0)), h)

\* The names the remote service asks for: the two tools processToolUse knows, the first
\* also in capitals, and one it does not know.
ToolNames == {ToolName("getdateandtimetool", {4, 8, 11, 15}),
              ToolName("getdateandtimetool", 1..18),
              ToolName("getweathertool", {4, 11}),
              ToolName("othertool", {6})}

\* toolName.toLowerCase(): no letter is left in upper case.
toLowerCase(toolName) == [toolName EXCEPT !.caps = {}]

\* What parseToolUseContentForWeather returns: null, or an object with the two
\* coordinates.
Parsed(value, latitude, longitude) ==
    [value |-> value, latitude |-> latitude, longitude |-> longitude]

\* parseToolUseContentForWeather: null when the content is no string, when JSON.parse
\* throws, and when it returns null (the property read throws); else the latitude and
\* longitude properties of the parsed value, undefined ones included.
parseToolUseContentForWeather(content) ==
    IF content.type = "string" /\ content.json = "value"
    THEN Parsed("object", content.latitude, content.longitude)
    ELSE Parsed("null", "undefined", "undefined")

\* The contents the remote service sends: '{"latitude":1,"longitude":2}', '{}', 'null',
\* a text that is no JSON, and a content that is an object.
Coordinates == Content("string", "value", "1", "2")
ToolContents == {Coordinates,
                 Content("string", "value", "undefined", "undefined"),
                 Content("string", "null", "undefined", "undefined"),
                 Content("string", "error", "undefined", "undefined"),
                 Content("object", "", "undefined", "undefined")}

\* The toolUse events the remote service sends, as name and content field: every name
\* with the coordinates, and the weather tool with every content.
ToolUses ==
    (ToolNames \X {Coordinates}) \cup ({ToolName("getweathertool", {4, 11})} \X ToolContents)

\* An inbound event of the response body; type is that of a contentEnd, and toolUseId is
\* 0 but for toolUse.
Inbound(kind, type, toolUseId) ==
    [kind |-> kind, type |-> type, toolName |-> NoName, toolUseId |-> toolUseId,
     content |-> NoContent]

\* The contentEnd of type TOOL: toolEnd has no handler; processToolUse is awaited inside
\* the loop, and what it throws (unsupported tool, weather content that does not parse)
\* is caught by the catch around the parse. Only the weather request takes a turn of the
\* event loop.
processToolEnd(W, h) ==
    LET rs == W.inits[h].rs
        id == W.sess[rs].toolUseId
        W1 == dispatchEvent(W, "toolEnd", h, Data("", id))
        tool == toLowerCase(W.sess[rs].toolName)
    IN CASE tool = ToolName("getdateandtimetool", {}) ->
              [dispatchEvent(sendToolResult(W1, id), "toolResult", h, Data("", id))
                  EXCEPT !.inits[h].settled = @ \cup {id}]
         [] tool = ToolName("getweathertool", {})
            /\ parseToolUseContentForWeather(W.sess[rs].toolUseContent).value # "null" ->
              [W1 EXCEPT !.inits[h].pc = "tool"]
         [] OTHER -> [W1 EXCEPT !.inits[h].settled = @ \cup {id}]

\* One inbound event in the loop of processResponseStream.
processResponseEvent(W, h, event) ==
    LET rs == W.inits[h].rs IN
    IF ~W.sess[rs].isActive THEN processResponseStreamEnd(W, h)
    ELSE IF event.kind \in {"modelStreamErrorException", "internalServerException"}
    THEN dispatchEvent(W, "error", h, Data(event.kind, 0))
    ELSE LET W1 == [W EXCEPT !.sessionLastActivity = "recent"] IN
         CASE event.kind = "toolUse" ->
                [dispatchEvent(W1, "toolUse", h, Data("", event.toolUseId))
                    EXCEPT !.sess[rs].toolUseId = event.toolUseId,
                           !.sess[rs].toolName = event.toolName,
                           !.sess[rs].toolUseContent = event.content]
           [] event.kind = "contentEnd" /\ event.type = "TOOL" -> processToolEnd(W1, h)
           [] OTHER -> dispatchEvent(W1, event.kind, h, Data("", 0))

\* The loop of processResponseStream over the inbound events that are waiting.
RECURSIVE readInbox(_, _)
readInbox(W, h) ==
    IF W.inits[h].pc # "reading" \/ W.inits[h].inbox = <<>> THEN W
    ELSE readInbox(processResponseEvent([W EXCEPT !.inits[h].inbox = Tail(@),
                                                  !.inits[h].warning = FALSE], h,
                                        Head(W.inits[h].inbox)), h)

\* An inbound event arrives: it is read at once unless the loop stands in the await of
\* processToolUse.
receiveResponseEvent(W, h, event) ==
    readInbox([W EXCEPT !.inits[h].n = @ + 1, !.inits[h].inbox = Append(@, event)], h)

\* processToolUse resolved: the tool result is sent and dispatched, and the loop goes on.
processToolResult(W, h) ==
    LET id == W.sess[W.inits[h].rs].toolUseId
        W1 == dispatchEvent(sendToolResult(W, id), "toolResult", h, Data("", id))
    IN readInbox([W1 EXCEPT !.inits[h].pc = "reading", !.inits[h].settled = @ \cup {id}], h)

\* processToolUse rejected (the weather request failed): caught and logged, the loop goes on.
processToolError(W, h) ==
    LET id == W.sess[W.inits[h].rs].toolUseId
    IN readInbox([W EXCEPT !.inits[h].pc = "reading", !.inits[h].settled = @ \cup {id}], h)

\* ------------------------------------------------------------ queue consumer
\* A take that hands out the newest queued event instead of the oldest.
TakeNewest(W, h) ==
    LET c == W.consumers[h] IN
    IF W.sess[c.s].queue = <<>> \/ ~W.sess[c.s].isActive
    THEN [W EXCEPT !.consumers[h].state = "done", !.consumers[h].ord = 0]
    ELSE LET q == W.sess[c.s].queue
             nextEvent == q[Len(q)] IN
         [W EXCEPT !.sess[c.s].queue = SubSeq(q, 1, Len(q) - 1),
                   !.consumers[h].eventCount = @ + 1,
                   !.consumers[h].yielded = Append(@, nextEvent),
                   !.consumers[h].state = "idle", !.consumers[h].ord = 0]

\* next(), from "If queue is still empty or session is inactive, we're done" on.
nextTake(W, h) ==
    LET c == W.consumers[h] IN
    IF W.sess[c.s].queue = <<>> \/ ~W.sess[c.s].isActive
    THEN [W EXCEPT !.consumers[h].state = "done", !.consumers[h].ord = 0]
    ELSE LET nextEvent == Head(W.sess[c.s].queue) IN
         [W EXCEPT !.sess[c.s].queue = Tail(@),
                   !.sess[c.s].isAudioContentStartSent =
                       IF nextEvent.kind = "contentStart" /\ nextEvent.contentName.t = "audio"
                       THEN TRUE ELSE @,
                   !.consumers[h].eventCount = @ + 1,
                   !.consumers[h].yielded = Append(@, nextEvent),
                   !.consumers[h].state = "idle", !.consumers[h].ord = 0]

\* The subscriptions to the signals of record r so far still waiting: the rank of the last.
Subscribers(W, r) ==
    LET ords == {W.consumers[g].ord : g \in {x \in DOMAIN W.consumers : W.consumers[x].s = r}}
    IN CHOOSE m \in ords \cup {0} : \A n \in ords : n <= m

\* A wait that subscribes to queueSignal one signal late.
WaitMissingSignal(W, h) ==
    LET c == W.consumers[h] IN
    IF W.sess[c.s].queue = <<>>
    THEN [W EXCEPT !.consumers[h].state = "waiting",
                   !.consumers[h].sub = W.sess[c.s].queueSignal + 1,
                   !.consumers[h].ord = Subscribers(W, c.s) + 1]
    ELSE nextTake(W, h)

\* next(), "Wait for items in the queue or close signal".
nextWait(W, h) ==
    LET c == W.consumers[h] IN
    IF W.sess[c.s].queue = <<>>
    THEN [W EXCEPT !.consumers[h].state = "waiting",
                   !.consumers[h].sub = W.sess[c.s].queueSignal,
                   !.consumers[h].ord = Subscribers(W, c.s) + 1]
    ELSE nextTake(W, h)

\* next() from its start.
next(W, h) ==
    LET c == W.consumers[h] IN
    IF ~W.sess[c.s].isActive \/ W.activeSessions = 0
    THEN [W EXCEPT !.consumers[h].state = "done", !.consumers[h].ord = 0]
    ELSE IF W.sess[c.s].queue = <<>> /\ c.eventCount = 0
    THEN [setupSessionStartEvent(W) EXCEPT !.consumers[h].state = "reseed"]
    ELSE nextWait(W, h)

\* A next() that goes back to waiting when the wait timer fires.
TimeoutWaitsAgain(W, h) == W

\* The race of next() is settled by the wait timer.
nextTimeout(W, h) ==
    IF ~W.sess[W.consumers[h].s].isActive
    THEN [W EXCEPT !.consumers[h].state = "done", !.consumers[h].ord = 0]
    ELSE nextTake(W, h)

\* return() of the iterator.
iteratorReturn(W, h) ==
    [W EXCEPT !.sess[W.consumers[h].s].isActive = FALSE, !.consumers[h].state = "done",
              !.consumers[h].ord = 0]

\* The race of next() is settled by queueSignal or closeSignal: the continuation runs as
\* a microtask of the macrotask that fired the signal.
nextWake(W, h) ==
    LET c == W.consumers[h] IN
    IF W.sess[c.s].queueSignal > c.sub THEN nextTake(W, h)
    ELSE [W EXCEPT !.consumers[h].state = "done", !.consumers[h].ord = 0]

\* The consumers whose wait a signal has settled.
Woken(W) ==
    {h \in DOMAIN W.consumers :
        /\ W.consumers[h].state = "waiting"
        /\ \/ W.sess[W.consumers[h].s].queueSignal > W.consumers[h].sub
           \/ W.sess[W.consumers[h].s].closeSignal}

\* The continuations run in the order of the subscriptions (consumers of different
\* records do not touch each other's queue: they are taken record by record).
RECURSIVE Wake(_)
Wake(W) ==
    IF Woken(W) = {} THEN W
    ELSE LET h == CHOOSE x \in Woken(W) : \A y \in Woken(W) :
                      \/ W.consumers[x].s < W.consumers[y].s
                      \/ W.consumers[x].s = W.consumers[y].s
                         /\ W.consumers[x].ord <= W.consumers[y].ord
         IN Wake(nextWake(W, h))

\* The end of a macrotask: the microtasks run, and the state is the program's state.
\* A process that has exited takes no step.
Commit(W) ==
    \E V \in {Wake(W)} :
    /\ ~exited
    /\ sess' = V.sess
    /\ activeSessions' = V.activeSessions
    /\ sessionLastActivity' = V.sessionLastActivity
    /\ sessionCleanupInProgress' = V.sessionCleanupInProgress
    /\ streams' = V.streams
    /\ streamSession' = V.streamSession
    /\ drainTimers' = V.drainTimers
    /\ tasks' = V.tasks
    /\ inits' = V.inits
    /\ consumers' = V.consumers
    /\ emitted' = V.emitted
    /\ exited' = V.exited

\* ------------------------------------------------------------------ actions
Inits == 1..MaxInit

\* io.on('connection'): the bridge creates the first record and its StreamSession.
Init ==
    /\ sess = [r \in Recs |-> IF r = 1 THEN NewSession(1) ELSE NoSession]
    /\ activeSessions = 1
    /\ sessionLastActivity = "none"
    /\ sessionCleanupInProgress = FALSE
    /\ streams = [r \in Recs |-> IF r = 1 THEN NewStream ELSE NoStream]
    /\ streamSession = 1
    /\ drainTimers = [r \in Recs |-> 0]
    /\ tasks = [tid \in TaskIds |-> NoTask]
    /\ inits = [h \in Inits |-> NoInit]
    /\ consumers = [h \in Inits |-> NoConsumer]
    /\ emitted = <<>>
    /\ exited = FALSE
    /\ sent = [init |-> 0, audio |-> 0, stop |-> 0, disc |-> 0, shutdown |-> 0]

\* Client messages; max bounds how many of the kind the client sends.
ClientInitSession(max) ==
    /\ sent.disc = 0 /\ sent.init < max
    /\ \E data \in {"none", "prompt", "nonString"} :
          Commit(initSession(World, sent.init + 1, data))
    /\ sent' = [sent EXCEPT !.init = @ + 1]

\* The payloads of an audioInput message: a base64 string or a Buffer, and a value
\* Buffer.from rejects (undefined, null, a number, an object).
Payloads == {"buffer", "rejected"}

\* socket.on('audioInput'): k messages handled in one turn of the event loop, with
\* payloads of the kinds the client of the scenario sends; a rejected payload comes as
\* one message alone.
ClientAudioInput(max, k, payloads) ==
    /\ sent.disc = 0 /\ sent.audio + k <= max
    /\ \E audioData \in payloads :
          /\ audioData = "buffer" \/ k = 1
          /\ Commit(audioInput(World, audioData, [i \in 1..k |-> sent.audio + i]))
    /\ sent' = [sent EXCEPT !.audio = @ + k]

ClientStopAudio(max) ==
    /\ sent.disc = 0 /\ sent.stop < max
    /\ Commit(StartTask(World, <<"stop", sent.stop + 1>>, "ce0"))
    /\ sent' = [sent EXCEPT !.stop = @ + 1]

ClientDisconnect ==
    /\ sent.disc = 0
    /\ Commit(disconnect(World))
    /\ sent' = [sent EXCEPT !.disc = 1]

DisconnectDeadline ==
    /\ tasks[<<"disc", 0>>].deadline
    /\ Commit(cleanupTimeout(World))
    /\ UNCHANGED sent

\* No timer shorter than the idle threshold is pending and nothing is in flight.
Quiet ==
    /\ \A tid \in TaskIds : tasks[tid].pc \in {"none", "done"} /\ ~tasks[tid].deadline
    /\ \A r \in Recs : drainTimers[r] = 0
    /\ \A h \in Inits : /\ inits[h].pc \in {"idle", "opening", "reading", "done"}
                         /\ consumers[h].state \in {"none", "idle", "waiting", "done"}
                         /\ inits[h].inbox = <<>>

\* More than SESSION_TIMEOUT passes without any event.
IdleTime ==
    /\ Quiet
    /\ sessionLastActivity # "old" \/ \E r \in Recs : sess[r].created /\ ~sess[r].aged
    /\ Commit([World EXCEPT !.sessionLastActivity = IF @ = "none" THEN "none" ELSE "old",
                            !.sess = [r \in Recs |-> [@[r] EXCEPT !.aged = @ \/ sess[r].created]]])
    /\ UNCHANGED sent

\* The bridge's setInterval callback.
Sweeper ==
    /\ activeSessions # 0
    /\ Commit(sweep(World))
    /\ UNCHANGED sent

\* The embedding application replaces a handler by one that throws, or registers an
\* 'any' handler, on the record registered under the id.
RegisterHandler(eventType) ==
    /\ activeSessions # 0
    /\ registerEventHandler(World, eventType, TRUE) # World
    /\ Commit(registerEventHandler(World, eventType, TRUE))
    /\ UNCHANGED sent

\* SIGINT, up to the await of io.close: the 5 s forceExitTimer is armed and io.close
\* closes the socket, which runs its disconnect handler if it was still connected.
\* sent.shutdown is 1 from here on, and 2 once the handler has gone on to the sessions.
Sigint ==
    /\ sent.shutdown = 0
    /\ Commit(IF sent.disc = 0 THEN disconnect(World) ELSE World)
    /\ sent' = [sent EXCEPT !.shutdown = 1, !.disc = 1]

\* The SIGINT handler after io.close has reported back: closeSession for every
\* registered session.
Shutdown ==
    /\ sent.shutdown = 1
    /\ Commit(IF activeSessions # 0 THEN closeSession(World, <<"close", 0>>) ELSE World)
    /\ sent' = [sent EXCEPT !.shutdown = 2]

\* The SIGINT handler ends the process: process.exit(1) from the forceExitTimer, 5 s
\* after the signal wherever the handler stands, or from its catch; process.exit(0) once
\* server.close has reported back.
ShutdownExit ==
    /\ sent.shutdown # 0
    /\ Commit([World EXCEPT !.exited = TRUE])
    /\ UNCHANGED sent

\* Timers.
DrainTimer(s) ==
    /\ drainTimers[s] > 0
    /\ Commit(drainFinally(processAudioQueue([World EXCEPT !.drainTimers[s] = @ - 1], s), s))
    /\ UNCHANGED sent

TaskTimer(tid) ==
    /\ tasks[tid].pc \notin {"none", "done"}
    /\ Commit(AfterTask(RunTask(World, tid), tid))
    /\ UNCHANGED sent

InitPromptStart(h) ==
    /\ inits[h].pc = "step2"
    /\ Commit([setupPromptStartEvent(World) EXCEPT !.inits[h].pc = "step3"])
    /\ UNCHANGED sent

InitSystemPrompt(h) ==
    /\ inits[h].pc = "step3"
    /\ Commit([setupSystemPromptEvent(World) EXCEPT !.inits[h].pc = "step4"])
    /\ UNCHANGED sent

InitStartAudio(h) ==
    /\ inits[h].pc = "step4"
    /\ Commit([setupStartAudioEvent(World) EXCEPT !.inits[h].pc = "step5"])
    /\ UNCHANGED sent

InitChunk(h) ==
    /\ inits[h].pc = "step5"
    /\ Commit(initiateSessionChunk(World, h))
    /\ UNCHANGED sent

InitCheck(h) ==
    /\ inits[h].pc = "check"
    /\ Commit(initiateSessionCheck(World, h))
    /\ UNCHANGED sent

InitOpen(h) ==
    /\ inits[h].pc = "iter"
    /\ Commit(initiateSessionOpen(World, h))
    /\ UNCHANGED sent

InitAck(h) ==
    /\ inits[h].pc = "ack"
    /\ Commit([World EXCEPT !.inits[h].pc = "done",
                             !.emitted = Append(@, Emit("sessionInitialized", h, 0, Data("success", 0)))])
    /\ UNCHANGED sent

\* The remote service.
OpenOk(h) ==
    /\ inits[h].pc = "opening"
    /\ Commit(processResponseStreamStart(World, h))
    /\ UNCHANGED sent

OpenFail(h) ==
    /\ inits[h].pc = "opening"
    /\ Commit(initiateSessionApiError(World, h))
    /\ UNCHANGED sent

\* The inbound events the remote service may send as the n-th event of h's stream.
InboundKinds == {"textOutput", "contentEnd", "toolUse", "modelStreamErrorException",
                 "internalServerException"}

InboundEvents(kinds, h, n) ==
    {event \in {Inbound("textOutput", "", 0), Inbound("contentEnd", "TOOL", 0),
                Inbound("modelStreamErrorException", "", 0),
                Inbound("internalServerException", "", 0)}
               \cup {[Inbound("toolUse", "", 100 * h + n) EXCEPT !.toolName = u[1],
                                                                  !.content = u[2]] :
                        u \in ToolUses} :
        event.kind \in kinds}

\* The remote service sends one of at most max inbound events, of one of the kinds.
RespEvent(max, kinds, h) ==
    /\ inits[h].pc \in {"reading", "tool"} /\ inits[h].n < max
    /\ \E event \in InboundEvents(kinds, h, inits[h].n + 1) :
          Commit(receiveResponseEvent(World, h, event))
    /\ UNCHANGED sent

RespEnd(h) ==
    /\ inits[h].pc = "reading"
    /\ Commit(processResponseStreamEnd(World, h))
    /\ UNCHANGED sent

RespError(h) ==
    /\ inits[h].pc = "reading"
    /\ Commit(processResponseStreamError(World, h))
    /\ UNCHANGED sent

WarningTimer(h) ==
    /\ inits[h].warning
    /\ Commit(processResponseStreamTimeout(World, h))
    /\ UNCHANGED sent

ToolDone(h) ==
    /\ inits[h].pc = "tool"
    /\ Commit(processToolResult(World, h))
    /\ UNCHANGED sent

ToolFail(h) ==
    /\ inits[h].pc = "tool"
    /\ Commit(processToolError(World, h))
    /\ UNCHANGED sent

\* The SDK pulling the request body.
ConsumerNext(h) ==
    /\ consumers[h].state = "idle" /\ inits[h].pc \notin {"iter", "idle"}
    /\ Commit(next(World, h))
    /\ UNCHANGED sent

ConsumerReseedTimer(h) ==
    /\ consumers[h].state = "reseed"
    /\ Commit(nextWait(World, h))
    /\ UNCHANGED sent

ConsumerTimeout(h) ==
    /\ consumers[h].state = "waiting"
    /\ Commit(nextTimeout(World, h))
    /\ UNCHANGED sent

ConsumerReturn(h) ==
    /\ consumers[h].state \in {"idle", "waiting", "reseed"}
    /\ inits[h].pc \in {"ack", "done"}
    /\ Commit(iteratorReturn(World, h))
    /\ UNCHANGED sent

\* ------------------------------------------------------------ specifications
\* The initiation steps of the initSession handlers.
InitSteps ==
    \/ \E h \in Inits : InitPromptStart(h)
    \/ \E h \in Inits : InitSystemPrompt(h)
    \/ \E h \in Inits : InitStartAudio(h)
    \/ \E h \in Inits : InitChunk(h)
    \/ \E h \in Inits : InitCheck(h)
    \/ \E h \in Inits : InitOpen(h)

\* The client messages sent so far.
Msgs ==
    sent.init + sent.audio + sent.stop + sent.disc + (IF sent.shutdown = 0 THEN 0 ELSE 1)

\* Teardown against initiation: one initSession, one stopAudio and one audioInput at any
\* moment, the remote stream opening and ending; the queue is not consumed.
NextTeardown ==
    \/ ClientInitSession(TdInit)
    \/ ClientAudioInput(TdAudio, 1, Payloads)
    \/ ClientStopAudio(TdStop)
    \/ \E tid \in TaskIds : TaskTimer(tid)
    \/ InitSteps
    \/ \E h \in Inits : InitAck(h)
    \/ \E h \in Inits : OpenOk(h)
    \/ \E h \in Inits : RespEnd(h)
    \/ \E h \in Inits : WarningTimer(h)

SpecTeardown == Init /\ [][NextTeardown]_vars

\* A client that sends stopAudio only after it was told that initiation is complete,
\* which the bridge tells it after the response stream has ended.
NextAfterStream ==
    \/ ClientInitSession(TdInit)
    \/ ClientAudioInput(TdAudio, 1, Payloads)
    \/ (\E h \in Inits : inits[h].pc = "done") /\ ClientStopAudio(TdStop)
    \/ \E tid \in TaskIds : TaskTimer(tid)
    \/ InitSteps
    \/ \E h \in Inits : InitAck(h)
    \/ \E h \in Inits : OpenOk(h)
    \/ \E h \in Inits : RespEnd(h)
    \/ \E h \in Inits : WarningTimer(h)

SpecAfterStream == Init /\ [][NextAfterStream]_vars

\* The three ordered teardowns (stopAudio, disconnect, closeSession at shutdown) against
\* initiation and against each other, OrdMsgs client messages in all.
NextOrder ==
    \/ Msgs < OrdMsgs /\ ClientInitSession(TdInit)
    \/ Msgs < OrdMsgs /\ ClientStopAudio(TdStop)
    \/ Msgs < OrdMsgs /\ ClientDisconnect
    \/ Msgs + (1 - sent.disc) < OrdMsgs /\ Sigint
    \/ Shutdown
    \/ \E tid \in TaskIds : TaskTimer(tid)
    \/ InitSteps
    \/ \E h \in Inits : InitAck(h)
    \/ DisconnectDeadline
    \/ ShutdownExit

SpecOrder == Init /\ [][NextOrder]_vars

\* The queue consumer against one initiation, one teardown and the remote stream
\* opening, failing and ending.
NextConsumer ==
    \/ ClientInitSession(TdInit)
    \/ ClientStopAudio(TdStop)
    \/ \E tid \in TaskIds : TaskTimer(tid)
    \/ InitSteps
    \/ \E h \in Inits : InitAck(h)
    \/ \E h \in Inits : OpenOk(h)
    \/ \E h \in Inits : OpenFail(h)
    \/ \E h \in Inits : RespEnd(h)
    \/ \E h \in Inits : ConsumerNext(h)
    \/ \E h \in Inits : ConsumerTimeout(h)
    \/ \E h \in Inits : ConsumerReturn(h)
    \/ \E h \in Inits : WarningTimer(h)

SpecConsumer == Init /\ [][NextConsumer]_vars

\* The next() calls the consumers have answered with an event so far.
RECURSIVE PullsUpTo(_)
PullsUpTo(h) == IF h = 0 THEN 0 ELSE Len(consumers[h].yielded) + PullsUpTo(h - 1)
Pulls == PullsUpTo(MaxInit)

\* Two initSession requests, the second at any moment of the first one's initiation,
\* and the consumers they create.
NextReinit ==
    \/ ClientInitSession(MaxInit)
    \/ \E tid \in TaskIds : TaskTimer(tid)
    \/ InitSteps
    \/ Pulls < ReinitPulls /\ \E h \in Inits : ConsumerNext(h)
    \/ \E h \in Inits : ConsumerReseedTimer(h)
    \/ \E h \in Inits : ConsumerTimeout(h)

SpecReinit == Init /\ [][NextReinit]_vars

\* A flood of audio on a session whose queue nobody consumes; every payload is audio
\* (a rejected payload leaves the queues as they are).
NextFlood ==
    \/ \E k \in 1..FloodBurst : ClientAudioInput(MaxFlood, k, {"buffer"})
    \/ \E s \in Recs : DrainTimer(s)

SpecFlood == Init /\ [][NextFlood]_vars

\* The timers the bridge itself runs once a client has connected.
DisconnectTimers ==
    \/ DisconnectDeadline
    \/ \E tid \in TaskIds : TaskTimer(tid)
    \/ InitSteps
    \/ \E h \in Inits : InitAck(h)
    \/ IdleTime
    \/ Sweeper

\* A client that disconnects at any moment of an initiation, of a teardown or after the
\* remote stream failed to open, OrdMsgs client messages in all, while the idle sweeper
\* runs throughout.
ClientLeaves ==
    \/ Msgs < OrdMsgs /\ ClientInitSession(TdInit)
    \/ Msgs < OrdMsgs /\ inits[1].pc \in {"opening", "ack", "done"} /\ ClientStopAudio(TdStop)
    \/ Msgs < OrdMsgs /\ ClientDisconnect
    \/ \E h \in Inits : OpenFail(h)

\* The same with SIGINT arriving between the steps of the initiation.
NextDisconnect ==
    \/ ClientLeaves
    \/ /\ Msgs + (1 - sent.disc) < OrdMsgs
       /\ inits[1].pc \in {"idle", "opening", "ack", "done"}
       /\ Sigint
    \/ Shutdown
    \/ ShutdownExit
    \/ DisconnectTimers

SpecDisconnect == Init /\ [][NextDisconnect]_vars

\* The disconnect scenario without SIGINT, every timer of the bridge eventually running.
NextAbandon ==
    \/ ClientLeaves
    \/ DisconnectTimers

SpecAbandon == Init /\ [][NextAbandon]_vars /\ WF_vars(DisconnectTimers)

\* The idle sweeper against a session that is connected, initiated, streaming and idle.
NextSweeper ==
    \/ ClientInitSession(TdInit)
    \/ IdleTime
    \/ Sweeper
    \/ \E tid \in TaskIds : TaskTimer(tid)
    \/ InitSteps
    \/ \E h \in Inits : OpenOk(h)
    \/ \E h \in Inits : RespEvent(1, {"textOutput"}, h)
    \/ \E h \in Inits : ConsumerNext(h)
    \/ \E h \in Inits : InitAck(h)
    \/ \E h \in Inits : ConsumerTimeout(h)
    \/ \E h \in Inits : WarningTimer(h)

SpecSweeper == Init /\ [][NextSweeper]_vars

\* Handlers that throw and an 'any' handler, registered at any moment of one initiation
\* and of the response stream it reads.
NextHandlers ==
    \/ ClientInitSession(TdInit)
    \/ \E eventType \in {"textOutput", "streamComplete", "any"} : RegisterHandler(eventType)
    \/ \E tid \in TaskIds : TaskTimer(tid)
    \/ InitSteps
    \/ \E h \in Inits : InitAck(h)
    \/ \E h \in Inits : OpenOk(h)
    \/ \E h \in Inits : RespEvent(MaxResp, {"textOutput"}, h)
    \/ \E h \in Inits : RespEnd(h)
    \/ \E h \in Inits : WarningTimer(h)

SpecHandlers == Init /\ [][NextHandlers]_vars

\* A second initSession while the first one's response stream is being read, and the
\* stream ending at any moment of the second request's cleanup and initiation.
NextEndRace ==
    \/ (sent.init = 0 \/ inits[1].pc = "reading") /\ ClientInitSession(MaxInit)
    \/ \E tid \in TaskIds : TaskTimer(tid)
    \/ InitSteps
    \/ \E h \in Inits : InitAck(h)
    \/ \E h \in Inits : OpenOk(h)
    \/ \E h \in Inits : RespEnd(h)
    \/ \E h \in Inits : WarningTimer(h)

SpecEndRace == Init /\ [][NextEndRace]_vars

\* Tool uses of one response stream while the client streams audio.
NextTool ==
    \/ ClientInitSession(TdInit)
    \/ ClientAudioInput(ToolAudio, 1, Payloads)
    \/ \E tid \in TaskIds : TaskTimer(tid)
    \/ InitSteps
    \/ \E h \in Inits : OpenOk(h)
    \/ \E h \in Inits : RespEvent(MaxResp, {"toolUse", "contentEnd"}, h)
    \/ \E h \in Inits : ToolDone(h)
    \/ \E h \in Inits : ToolFail(h)
    \/ \E h \in Inits : WarningTimer(h)

SpecTool == Init /\ [][NextTool]_vars

\* Audio in single chunks and in bursts longer than one batch of the drain loop, against
\* one stopAudio, which closes the StreamSession.
NextAudio ==
    \/ \E k \in {1, Burst} : ClientAudioInput(MaxChunks, k, Payloads)
    \/ ClientStopAudio(TdStop)
    \/ \E s \in Recs : DrainTimer(s)
    \/ \E tid \in TaskIds : TaskTimer(tid)

SpecAudio == Init /\ [][NextAudio]_vars

\* ------------------------------------------------------------------ claims
\* The events of record r's enqueue history.
Log(r) == sess[r].log

\* C1: on every session record, at most one contentEnd naming a given content ID is
\* ever enqueued, whatever sequence of initiation, end of the response stream,
\* stopAudio and overlapping sendContentEnd calls has run.
C1_OneContentEndPerId ==
    \A r \in Recs : \A i, j \in 1..Len(Log(r)) :
        (/\ Log(r)[i].kind = "contentEnd" /\ Log(r)[j].kind = "contentEnd"
         /\ Log(r)[i].contentName = Log(r)[j].contentName) => i = j

\* C2: once promptEnd(p) is enqueued on a record, no audioInput, contentStart,
\* toolResult or contentEnd naming prompt p is enqueued on it afterwards.
C2_NothingAfterPromptEnd ==
    \A r \in Recs : \A i, j \in 1..Len(Log(r)) :
        (/\ i < j /\ Log(r)[i].kind = "promptEnd"
         /\ Log(r)[j].kind \in {"audioInput", "contentStart", "toolResult", "contentEnd"})
        => Log(r)[j].promptName # Log(r)[i].promptName

\* C9: every audioInput enqueued on a record whose initiation has begun names a content
\* ID that is in the record's activeContentIds at the moment of the enqueue.
C9_AudioNamesTrackedContent ==
    [][\A r \in Recs : \A i \in (Len(Log(r)) + 1)..Len(sess'[r].log) :
          (/\ Len(Log(r)) > 0 /\ Log(r)[1].kind = "sessionStart"
           /\ sess'[r].log[i].kind = "audioInput")
          => sess'[r].log[i].contentName \in sess[r].activeContentIds]_vars

\* The kinds of the events a teardown sequence enqueued, in enqueue order.
Out(tid) == tasks[tid].out

\* The events a step adds to what teardown tid has enqueued.
NewOut(tid) == SubSeq(tasks'[tid].out, Len(Out(tid)) + 1, Len(tasks'[tid].out))

\* C3: in every ordered teardown (stopAudio, disconnect cleanup, closeSession) the events
\* the teardown enqueues come in the order contentEnd*, promptEnd*, sessionEnd (no
\* contentEnd after a promptEnd, nothing after sessionEnd), and they cover what is open:
\* when the teardown enqueues a promptEnd every entry of the session's activeContentIds
\* has had its contentEnd, and when it enqueues sessionEnd every member of
\* activePromptIds has had its promptEnd.
C3_TeardownOrder ==
    /\ [](\A tid \in TaskIds : Kind(tid) \in {"stop", "disc", "close"} =>
            \A i, j \in 1..Len(Out(tid)) : i < j =>
                /\ ~(Out(tid)[i].kind = "promptEnd" /\ Out(tid)[j].kind = "contentEnd")
                /\ Out(tid)[i].kind # "sessionEnd")
    /\ [][\A tid \in TaskIds : Kind(tid) \in {"stop", "disc", "close"} =>
            /\ (\E i \in 1..Len(NewOut(tid)) : NewOut(tid)[i].kind = "promptEnd")
                  => sess'[activeSessions].activeContentIds = {}
            /\ (\E i \in 1..Len(NewOut(tid)) : NewOut(tid)[i].kind = "sessionEnd")
                  => sess'[activeSessions].activePromptIds = {}]_vars

\* C10: the outbound queue of a session record never holds more than maxQueueSize
\* audioInput items, even when nothing consumes the queue.
C10_QueueHoldsAtMostN ==
    \A r \in Recs :
        Cardinality({i \in 1..Len(sess[r].queue) : sess[r].queue[i].kind = "audioInput"})
            <= maxQueueSize

\* What consumer h has yielded so far, and the record it reads.
Yielded(h) == consumers[h].yielded
RecOf(h) == consumers[h].s

\* C4: what a consumer yields begins with sessionStart and holds exactly one
\* sessionStart, whatever messages arrive before or during initiation.
C4_BeginsWithOneSessionStart ==
    \A h \in Inits : Len(Yielded(h)) > 0 =>
        /\ Yielded(h)[1].kind = "sessionStart"
        /\ Cardinality({i \in 1..Len(Yielded(h)) : Yielded(h)[i].kind = "sessionStart"}) = 1

\* C6: a consumer yields the events of its record in strict enqueue order, each one as
\* it was enqueued and none of them twice.
C6_YieldsInEnqueueOrder ==
    \A h \in Inits : \A i, j \in 1..Len(Yielded(h)) :
        /\ Yielded(h)[i] = Log(RecOf(h))[Yielded(h)[i].sn]
        /\ i < j => Yielded(h)[i].sn < Yielded(h)[j].sn

\* A consumer has yielded the seeded events, the teardown's events and the sessionEnd.
C6_Witness ==
    \E h \in Inits :
        /\ Len(Yielded(h)) >= 8
        /\ Yielded(h)[Len(Yielded(h))].kind = "sessionEnd"

\* C7: a consumer never yields an event while its session record is inactive or while
\* that record is not the one the registry holds for the session id.
C7_NoYieldWhileInactive ==
    [][\A h \in Inits : Len(consumers'[h].yielded) > Len(Yielded(h))
          => /\ sess[consumers'[h].s].isActive /\ sess'[consumers'[h].s].isActive
             /\ activeSessions' = consumers'[h].s]_vars

\* C8: a consumer that is waiting ends its sequence only when the close signal has
\* fired or the session is inactive; a wait timer that expires on an empty queue of an
\* active session leaves the sequence open.
C8_TimeoutKeepsOpen ==
    [][\A h \in Inits :
          (consumers[h].state = "waiting" /\ consumers'[h].state = "done")
          => (sess'[RecOf(h)].closeSignal \/ ~sess'[RecOf(h)].isActive)]_vars

\* C5: once a teardown's sendSessionEnd has marked the record inactive, the sessionEnd it
\* enqueued is the last event a consumer that had started reading the record yielded.
C5_SessionEndIsLastYielded ==
    \A tid \in TaskIds :
        (/\ tasks[tid].pc = "done" /\ tasks[tid].s # 0
         /\ \E i \in 1..Len(Out(tid)) : Out(tid)[i].kind = "sessionEnd")
        => \A h \in Inits :
              (RecOf(h) = tasks[tid].s /\ Len(Yielded(h)) > 0)
              => Yielded(h)[Len(Yielded(h))].kind = "sessionEnd"

\* ------------------------------------------------------- the response stream
\* One initSession whose upstream stream opens or fails to open, up to MaxResp inbound
\* events, tool invocations that return or throw, the end of the stream or an exception
\* while it is read, and one stopAudio at any moment.
NextResponse ==
    \/ ClientInitSession(TdInit)
    \/ ClientStopAudio(TdStop)
    \/ \E tid \in TaskIds : TaskTimer(tid)
    \/ InitSteps
    \/ \E h \in Inits : InitAck(h)
    \/ \E h \in Inits : OpenOk(h)
    \/ \E h \in Inits : OpenFail(h)
    \/ \E h \in Inits : RespEvent(MaxResp, InboundKinds, h)
    \/ \E h \in Inits : RespEnd(h)
    \/ \E h \in Inits : RespError(h)
    \/ \E h \in Inits : ToolDone(h)
    \/ \E h \in Inits : ToolFail(h)
    \/ \E h \in Inits : WarningTimer(h)

SpecResponse == Init /\ [][NextResponse]_vars

\* C11: for every tool use whose contentEnd of type TOOL was read and whose invocation
\* has returned or thrown, a toolResult carrying its toolUseId was enqueued upstream or an
\* error naming the tool use was dispatched; also for an unknown tool and a failed one.
C11_ToolUseAnswered ==
    \A h \in Inits : \A id \in inits[h].settled : id # 0 =>
        \/ \E r \in Recs : \E i \in 1..Len(Log(r)) :
              Log(r)[i].kind = "toolResult" /\ Log(r)[i].data = id
        \/ \E i \in 1..Len(emitted) :
              emitted[i].type = "error" /\ emitted[i].d.toolUseId = id

\* C12: the response reader does not block on a tool invocation: while processToolUse is
\* pending no inbound event that has arrived is left unread.
C12_ReaderDoesNotBlock ==
    \A h \in Inits : inits[h].pc = "tool" => inits[h].inbox = <<>>

\* The positions of the emissions of a type that come from handler h's stream.
Emitted(eventType, h) ==
    {i \in 1..Len(emitted) : emitted[i].type = eventType /\ emitted[i].h = h}

\* C15: on the happy path sessionInitialized is emitted while the session is live: no
\* streamComplete of the session's response stream is emitted before it.
C15_InitializedBeforeStreamEnds ==
    \A h \in Inits : inits[h].outcome = "clean" =>
        \A i \in Emitted("sessionInitialized", h) : \A j \in Emitted("streamComplete", h) :
            i < j

\* C16: when stopAudio has acted on the record of an open response stream and the stream
\* has ended, streamComplete has been emitted to the client, whether the stream ended
\* before or after the record was removed from the registry.
C16_StreamCompleteAfterStop ==
    \A h \in Inits : \A tid \in TaskIds :
        (/\ Kind(tid) = "stop" /\ tasks[tid].s # 0 /\ tasks[tid].s = inits[h].rs
         /\ inits[h].outcome = "clean")
        => Emitted("streamComplete", h) # {}

\* C17: a stream that has ended delivered exactly one streamComplete, and one that failed
\* (open failure or timeout, exception while reading) delivered an error before it.
C17_ErrorThenStreamComplete ==
    \A h \in Inits : inits[h].outcome \in {"clean", "openfail", "readerror"} =>
        /\ Cardinality(Emitted("streamComplete", h)) = 1
        /\ inits[h].outcome = "clean" => Emitted("error", h) = {}
        /\ inits[h].outcome # "clean" =>
              \E i \in Emitted("error", h) : \E j \in Emitted("streamComplete", h) : i < j

\* C18: a stream-level error (the open call failed or timed out, or the response body
\* threw) is dispatched to the error handler exactly once.
C18_StreamErrorOnce ==
    \A h \in Inits : inits[h].outcome \in {"openfail", "readerror"} =>
        Cardinality({i \in Emitted("error", h) :
                        emitted[i].d.source \in {"bidirectionalStream", "responseStream"}}) = 1

\* C19: after the error for a modelStreamErrorException or internalServerException no
\* later inbound event of that stream is dispatched to the handlers, and when the handler
\* of that stream has finished the session record is inactive and out of the registry.
C19_NoDispatchAfterStreamError ==
    \A i \in 1..Len(emitted) :
        (/\ emitted[i].type = "error"
         /\ emitted[i].d.source \in {"modelStreamErrorException", "internalServerException"})
        => /\ \A j \in (i + 1)..Len(emitted) : emitted[j].h = emitted[i].h =>
                 emitted[j].type \in {"error", "streamComplete", "sessionInitialized"}
           /\ inits[emitted[i].h].pc = "done" =>
                 /\ ~sess[inits[emitted[i].h].rs].isActive
                 /\ activeSessions # inits[emitted[i].h].rs

\* C20: when initiateSession returns after the open call failed or timed out, the session
\* record is inactive and the id is in neither the registry nor the last-activity map.
C20_OpenFailureTearsDown ==
    [][\A h \in Inits :
          (inits[h].pc = "opening" /\ inits'[h].outcome = "openfail")
          => /\ ~sess'[inits[h].s].isActive
             /\ activeSessions' = 0
             /\ sessionLastActivity' = "none"]_vars

\* ------------------------------------------------------- replacement of a record
\* The first initiation is in its open call or in processResponseStream, a tool
\* invocation awaited in the loop included.
Established == inits[1].pc \in {"opening", "reading", "tool"}

\* A first session initiated up to the open call; then a second initSession and one
\* stopAudio at any moment, the first stream opening and delivering one inbound event
\* (the second stream's open call stays pending), and the consumers' first pulls. The
\* stream's consumer pulls ReplacePulls times in all: a record's queue then still holds
\* events of its opening sequence, so that no next() reaches its wait and the timer of the
\* wait is never armed (SpecRetire below lets the consumers pull on and wait).
NextReplace ==
    \/ (sent.init = 0 \/ Established) /\ ClientInitSession(MaxInit)
    \/ Established /\ ClientStopAudio(MaxStop)
    \/ \E tid \in TaskIds : TaskTimer(tid)
    \/ InitSteps
    \/ \E h \in 1..TdInit : OpenOk(h)
    \/ \E h \in 1..TdInit : RespEvent(1, {"textOutput"}, h)
    \/ Pulls < ReplacePulls /\ \E h \in Inits : ConsumerNext(h)
    \/ \E h \in Inits : InitAck(h)
    \/ \E h \in Inits : WarningTimer(h)

SpecReplace == Init /\ [][NextReplace]_vars

\* A session is established and stopped, and a second initSession arrives in the last
\* pause of the stopAudio teardown, when the StreamSession is closed and the record is
\* still registered. The first stream opens and delivers one inbound event (the second
\* stream's open call stays pending), and the consumers pull until they wait.
NextRetire ==
    \/ (sent.init = 0 \/ tasks[<<"stop", 1>>].pc = "se1") /\ ClientInitSession(MaxInit)
    \/ Established /\ ClientStopAudio(MaxStop)
    \/ \E tid \in TaskIds : TaskTimer(tid)
    \/ InitSteps
    \/ \E h \in Inits : InitAck(h)
    \/ \E h \in 1..TdInit : OpenOk(h)
    \/ \E h \in 1..TdInit : RespEvent(1, {"textOutput"}, h)
    \/ \E h \in Inits : ConsumerNext(h)
    \/ \E h \in Inits : ConsumerTimeout(h)
    \/ \E h \in Inits : WarningTimer(h)

\* The wait timer of next() fires.
SpecRetire == Init /\ [][NextRetire]_vars /\ \A h \in Inits : WF_vars(ConsumerTimeout(h))

\* C13: createStreamSession on an id that has a record marks that record inactive and
\* registers a fresh active record. From then on the old record's consumer yields
\* nothing: a call of next() finds the flag and ends the sequence, and a consumer
\* suspended in next() ends when its wait is over, which it eventually is. The old
\* record's reader ends at its next inbound event without dispatching it.
C13_ReplacedRecordIsRetired ==
    /\ [][/\ \A r \in Recs : (sess'[r].replaced /\ ~sess[r].replaced) =>
                 /\ ~sess'[r].isActive
                 /\ activeSessions' \notin {0, r}
                 /\ ~sess[activeSessions'].created
                 /\ sess'[activeSessions'].isActive
          /\ \A r \in Recs : sess[r].replaced => ~sess'[r].isActive
          /\ \A h \in Inits : (RecOf(h) # 0 /\ sess[RecOf(h)].replaced) =>
                 /\ consumers'[h].yielded = Yielded(h)
                 /\ consumers'[h] # consumers[h] => consumers'[h].state = "done"
          /\ \A h \in Inits :
                 (/\ inits[h].pc = "reading" /\ sess[inits[h].rs].replaced
                  /\ inits'[h].n > inits[h].n)
                 => /\ inits'[h].pc # "reading"
                    /\ \A i \in (Len(emitted) + 1)..Len(emitted') :
                          emitted'[i].h = h => emitted'[i].type = "streamComplete"]_vars
    /\ \A h \in Inits :
          (IF RecOf(h) = 0 THEN FALSE
           ELSE sess[RecOf(h)].replaced /\ consumers[h].state = "waiting")
              ~> (consumers[h].state = "done")

\* A consumer that had yielded events of a record and had not ended when the record was
\* replaced has ended, with events of the old record left in its queue.
C13_Witness ==
    \E h \in Inits :
        /\ Len(Yielded(h)) > 0 /\ sess[RecOf(h)].replaced
        /\ inits[h].outcome # "openfail"
        /\ consumers[h].state = "done"
        /\ sess[RecOf(h)].queue # <<>>
        /\ activeSessions > RecOf(h)

\* ------------------------------------------------------- a second initSession
\* A first session initiated and its opening sequence pulled by its consumer; then a
\* second initSession, its cleanup of the first session and its own initiation.
NextSecondInit ==
    \/ (sent.init = 0 \/ consumers[1].state \in {"waiting", "done"})
       /\ ClientInitSession(MaxInit)
    \/ \E tid \in TaskIds : TaskTimer(tid)
    \/ InitSteps
    \/ \E h \in Inits : ConsumerNext(h)
    \/ \E h \in Inits : ConsumerTimeout(h)

SpecSecondInit == Init /\ [][NextSecondInit]_vars

\* C14: when an initSession handler has created its session after cleaning up a session
\* whose consumer was reading, the cleanup enqueued the contentEnd of the audio content,
\* a promptEnd and the sessionEnd in that order, and a consumer of the first session has
\* yielded all three.
C14_FirstTornDownBeforeSecond ==
    \A h \in Inits :
        LET tid == <<"init", h>>
            first == tasks[tid].s
            yieldedUpstream(e) ==
                \E g \in Inits : RecOf(g) = first /\ \E n \in 1..Len(Yielded(g)) :
                    Yielded(g)[n] = e
        IN (/\ inits[h].s # 0 /\ first # 0
            /\ \E g \in Inits : RecOf(g) = first /\ Len(Yielded(g)) > 0)
           => \E i, j, k \in 1..Len(Out(tid)) :
                 /\ i < j /\ j < k
                 /\ Out(tid)[i].kind = "contentEnd"
                 /\ Out(tid)[i].contentName = sess[first].audioContentId
                 /\ Out(tid)[j].kind = "promptEnd"
                 /\ Out(tid)[k].kind = "sessionEnd"
                 /\ yieldedUpstream(Out(tid)[i])
                 /\ yieldedUpstream(Out(tid)[j])
                 /\ yieldedUpstream(Out(tid)[k])

\* ------------------------------------------------------- queue and tracking
\* The positions of record r's enqueue history that hold an event of a kind naming a
\* prompt or a content.
Enqueued(r, kind, p, c) ==
    {i \in 1..Len(Log(r)) : /\ Log(r)[i].kind = kind /\ Log(r)[i].promptName = p
                            /\ Log(r)[i].contentName = c}

\* C28: on every record at most one promptEnd naming a given prompt is ever enqueued,
\* also when stopAudio follows the end of the response stream, and a promptEnd(p) is
\* enqueued only after a promptStart(p).
C28_OnePromptEndPerPrompt ==
    \A r \in Recs : \A i \in 1..Len(Log(r)) : Log(r)[i].kind = "promptEnd" =>
        /\ Enqueued(r, "promptEnd", Log(r)[i].promptName, NoId) = {i}
        /\ \E j \in Enqueued(r, "promptStart", Log(r)[i].promptName, NoId) : j < i

\* C27: every content ID in a record's activeContentIds has had exactly one contentStart
\* enqueued on the record and no contentEnd; an ID whose contentEnd was enqueued is not
\* in activeContentIds again.
C27_TrackedContentIsOpen ==
    \A r \in Recs : \A c \in sess[r].activeContentIds :
        /\ Cardinality(Enqueued(r, "contentStart", sess[r].promptName, c)) = 1
        /\ Enqueued(r, "contentEnd", sess[r].promptName, c) = {}

\* C26: once a session record is inactive nothing is appended to its outbound queue:
\* its enqueue history stays as it is and its queue does not grow.
C26_NoAppendWhenInactive ==
    [][\A r \in Recs : (sess[r].created /\ ~sess[r].isActive) =>
          /\ sess'[r].log = sess[r].log
          /\ Len(sess'[r].queue) <= Len(sess[r].queue)]_vars

\* A stopAudio whose record became inactive after its first pause ran to its end: its
\* contentEnd, promptEnd and sessionEnd were all refused.
C26_Witness ==
    \E tid \in TaskIds :
        /\ Kind(tid) = "stop" /\ tasks[tid].pc = "done" /\ ~tasks[tid].threw
        /\ tasks[tid].s # 0 /\ ~sess[tasks[tid].s].isActive
        /\ Len(Out(tid)) = 1 /\ Out(tid)[1].kind = "audioInput"

DisconnectHandled ==
    /\ sent.disc = 1
    /\ tasks[<<"disc", 0>>].pc \in {"none", "done"} \/ ~tasks[<<"disc", 0>>].deadline

\* No teardown sequence and no initiation is still on its way.
Settled ==
    /\ \A tid \in TaskIds : tasks[tid].pc \in {"none", "done"}
    /\ \A h \in Inits : inits[h].pc \in {"idle", "ack", "done"}

C22_IdleCloseIsAnnounced ==
    \A r \in Recs : sess[r].forceClosed = "sweeper" =>
        \E i, j \in 1..Len(emitted) :
            /\ i < j
            /\ emitted[i].type = "error" /\ emitted[i].d.source = "idleTimeout"
            /\ emitted[j].type = "streamComplete"

\* More than the idle threshold has passed since the last event of the id, or, with no
\* event yet, since the creation of record r.
Stale(r) ==
    IF sessionLastActivity = "none" THEN sess[r].aged ELSE sessionLastActivity = "old"

\* C23: the sweeper force-closes a registered session only when more than the idle
\* threshold has passed since its last event; a session created less than the threshold
\* ago with no event yet is not force-closed.
C23_SweeperClosesOnlyStale ==
    [][\A r \in Recs : (sess[r].forceClosed = "" /\ sess'[r].forceClosed = "sweeper")
          => activeSessions = r /\ Stale(r)]_vars

\* C24: forceCloseSession called twice leaves the client as calling it once does, and it
\* changes nothing when the id is unknown or is already being cleaned up.
C24_ForceCloseIdempotent ==
    /\ forceCloseSession(forceCloseSession(World)) = forceCloseSession(World)
    /\ (sessionCleanupInProgress \/ activeSessions = 0) => forceCloseSession(World) = World

\* The deadline of the disconnect cleanup force-closed a record mid-teardown.
C24_Witness ==
    \E r \in Recs : /\ sess[r].forceClosed = "deadline" /\ ~sess[r].isActive
                     /\ activeSessions = 0 /\ sessionLastActivity = "none"
                     /\ ~sessionCleanupInProgress

\* C25: whenever the last-activity map has an entry for the id the registry has a
\* record for it; in particular none remains once sendSessionEnd, closeSession or
\* forceCloseSession has completed.
C25_ActivityImpliesRegistered == sessionLastActivity # "none" => activeSessions # 0

\* ------------------------------------------------------------ handler isolation
\* The handler calls a step adds.
NewCalls == (Len(emitted) + 1)..Len(emitted')

\* C29: when the kind-specific handler of an event throws, the 'any' handler is still
\* called for that event, and the response loop goes on: every later inbound event read
\* from a registered, active session is dispatched to its handler.
C29_HandlerIsolation ==
    [][/\ \A i \in NewCalls :
            (/\ emitted'[i].r # 0 /\ emitted'[i].type # "any"
             /\ sess[emitted'[i].r].anyHandler)
            => /\ i + 1 \in NewCalls
               /\ emitted'[i + 1] = Emit("any", emitted'[i].h, emitted'[i].r,
                                          Data(emitted'[i].type, emitted'[i].d.toolUseId))
       /\ \A h \in Inits :
            (/\ inits[h].pc = "reading" /\ inits'[h].n = inits[h].n + 1
             /\ sess[inits[h].rs].isActive /\ activeSessions # 0)
            => /\ inits'[h].pc = "reading"
               /\ \E i \in NewCalls :
                      emitted'[i].h = h /\ emitted'[i].type = "textOutput"]_vars

\* A handler that throws was called, the 'any' handler was called for the same event,
\* and a later event reached its handler.
C29_Witness ==
    \E i \in 1..Len(emitted) : \E j \in 1..Len(emitted) :
        /\ emitted[i].r # 0 /\ emitted[i].type \in sess[emitted[i].r].throwing
        /\ emitted[i].h # 0
        /\ i + 1 < j
        /\ emitted[i + 1].type = "any" /\ emitted[i + 1].d.source = emitted[i].type
        /\ emitted[j].type = "textOutput" /\ emitted[j].h = emitted[i].h

\* ------------------------------------------------------------ opening sequence
\* Only the one initSession request has come from the client.
OnlyInit == sent = [init |-> 1, audio |-> 0, stop |-> 0, disc |-> 0, shutdown |-> 0]

Kinds(q) == [i \in 1..Len(q) |-> q[i].kind]

\* C31: when initiateSession runs with no concurrent client message, the queue at the
\* moment the consumer is created is sessionStart, promptStart, contentStart(TEXT,
\* SYSTEM), textInput, contentEnd of that text content, contentStart(AUDIO, USER) of
\* audioContentId, one audioInput of audioContentId; activePromptIds is {promptName} and
\* activeContentIds is {audioContentId}.
C31_OpeningSequence ==
    \A h \in Inits : (OnlyInit /\ inits[h].pc = "opening") =>
        LET r == inits[h].s
            q == sess[r].queue
            p == sess[r].promptName
            a == sess[r].audioContentId
        IN /\ Kinds(q) = <<"sessionStart", "promptStart", "contentStart", "textInput",
                           "contentEnd", "contentStart", "audioInput">>
           /\ q[2].promptName = p
           /\ q[3].type = "TEXT" /\ q[3].role = "SYSTEM" /\ q[3].promptName = p
           /\ q[3].contentName \notin {a, NoId}
           /\ q[4].contentName = q[3].contentName /\ q[5].contentName = q[3].contentName
           /\ q[6].type = "AUDIO" /\ q[6].role = "USER" /\ q[6].contentName = a
           /\ q[6].promptName = p
           /\ q[7].contentName = a /\ q[7].promptName = p
           /\ sess[r].activePromptIds = {p}
           /\ sess[r].activeContentIds = {a}
           /\ consumers[h].state = "idle" /\ consumers[h].s = r

\* The consumer of an initiation that no client message crossed has just been created.
C31_Witness ==
    \E h \in Inits : /\ OnlyInit /\ inits[h].pc = "opening"
                      /\ consumers[h].state = "idle" /\ Len(sess[inits[h].s].queue) = 7

\* C32: on every record's queue, each contentEnd of an audio content ID comes after an
\* audioInput of that ID, which comes after the contentStart of that ID.
C32_AudioBeforeContentEnd ==
    \A r \in Recs : \A i \in 1..Len(Log(r)) :
        (Log(r)[i].kind = "contentEnd" /\ Log(r)[i].contentName.t = "audio") =>
            \E k, j \in 1..Len(Log(r)) :
                /\ k < j /\ j < i
                /\ Log(r)[k].kind = "contentStart"
                /\ Log(r)[k].contentName = Log(r)[i].contentName
                /\ Log(r)[j].kind = "audioInput"
                /\ Log(r)[j].contentName = Log(r)[i].contentName

\* ------------------------------------------------------------ record isolation
\* The sequence tid resumes, in this step, an operation it began on another record than
\* the one that is registered now.
ResumesStale(tid, pcs) ==
    /\ tasks[tid].pc \in pcs /\ tasks'[tid].pc # tasks[tid].pc
    /\ activeSessions # 0 /\ tasks[tid].s # activeSessions

\* C36: a teardown operation that began on record R and resumes after another record was
\* registered under the id leaves that record alone: it enqueues nothing on its queue,
\* does not mark it inactive and does not take it out of the registry.
C36_TeardownTouchesOnlyItsRecord ==
    [][\A tid \in TaskIds :
          LET r == activeSessions IN
          /\ ResumesStale(tid, {"ce1", "ce1b"}) => sess'[r].log = sess[r].log
          /\ ResumesStale(tid, {"se1"}) =>
                /\ sess'[r].log = sess[r].log
                /\ sess'[r].isActive = sess[r].isActive
                /\ activeSessions' = r \/ sess'[r].replaced]_vars

\* C37: what processResponseStream dispatches for the stream that initiateSession opened
\* for record R reaches the handlers of R only, and the tool results of that stream are
\* enqueued on R's queue only.
C37_InboundStaysOnItsRecord ==
    /\ \A i \in 1..Len(emitted) :
          (emitted[i].h # 0 /\ emitted[i].r # 0) => emitted[i].r = inits[emitted[i].h].s
    /\ \A r \in Recs : \A i \in 1..Len(Log(r)) :
          Log(r)[i].kind = "toolResult" => inits[Log(r)[i].data \div 100].s = r

\* ------------------------------------------------------------------ tool results
\* The positions of record r's enqueue history that name content c.
Naming(r, c) == {i \in 1..Len(Log(r)) : Log(r)[i].contentName = c}

\* The tool use the response loop of handler h had read last when it made the i-th
\* handler call.
LastToolUse(h, i) ==
    LET S == {k \in 1..(i - 1) : emitted[k].type = "toolUse" /\ emitted[k].h = h} IN
    IF S = {} THEN 0 ELSE emitted[CHOOSE k \in S : \A m \in S : m <= k].d.toolUseId

\* C33: a tool result is three consecutive queue entries, contentStart(TOOL, role TOOL,
\* toolUseId), toolResult, contentEnd, with the session's promptName and one fresh
\* content ID, also while client audio is enqueued; its toolUseId is that of the last
\* toolUse received before the contentEnd(TOOL).
C33_ToolResultTriple ==
    /\ \A r \in Recs : \A i \in 1..Len(Log(r)) : Log(r)[i].kind = "toolResult" =>
          /\ 1 < i /\ i < Len(Log(r))
          /\ Log(r)[i - 1].kind = "contentStart"
          /\ Log(r)[i - 1].type = "TOOL" /\ Log(r)[i - 1].role = "TOOL"
          /\ Log(r)[i - 1].data = Log(r)[i].data
          /\ Log(r)[i + 1].kind = "contentEnd"
          /\ \A j \in {i - 1, i, i + 1} : /\ Log(r)[j].promptName = sess[r].promptName
                                           /\ Log(r)[j].contentName = Log(r)[i].contentName
          /\ Naming(r, Log(r)[i].contentName) = {i - 1, i, i + 1}
    /\ \A r \in Recs : \A i \in 1..Len(Log(r)) :
          (Log(r)[i].kind = "contentStart" /\ Log(r)[i].type = "TOOL") =>
              i < Len(Log(r)) /\ Log(r)[i + 1].kind = "toolResult"
    /\ \A i \in 1..Len(emitted) : (emitted[i].type = "toolResult" /\ emitted[i].h # 0) =>
          /\ emitted[i].d.toolUseId = LastToolUse(emitted[i].h, i)
          /\ \E n \in 1..Len(Log(emitted[i].r)) :
                /\ Log(emitted[i].r)[n].kind = "toolResult"
                /\ Log(emitted[i].r)[n].data = emitted[i].d.toolUseId

\* A tool result was enqueued after a second toolUse had replaced the first, between
\* two chunks of client audio.
C33_Witness ==
    \E r \in Recs : \E i, a, b \in 1..Len(Log(r)) :
        /\ a < i /\ i + 1 < b
        /\ Log(r)[i].kind = "toolResult" /\ Log(r)[i].data % 100 > 1
        /\ Log(r)[a].kind = "audioInput" /\ Log(r)[a].data # Sentinel
        /\ Log(r)[b].kind = "audioInput" /\ Log(r)[b].data # Sentinel

\* ------------------------------------------------------------------ audio forwarding
\* The client chunks among the audioInput events of record r's enqueue history, in order.
RECURSIVE ChunksOf(_)
ChunksOf(log) ==
    IF log = <<>> THEN <<>>
    ELSE IF Head(log).kind = "audioInput" /\ Head(log).data # Sentinel
    THEN <<Head(log).data>> \o ChunksOf(Tail(log))
    ELSE ChunksOf(Tail(log))

\* The chunks a step enqueues on record r.
NewChunksOn(r) ==
    {sess'[r].log[j].data : j \in {i \in 1..Len(sess'[r].log) :
          /\ i > Len(sess[r].log)
          /\ sess'[r].log[i].kind = "audioInput" /\ sess'[r].log[i].data # Sentinel}}

NewChunks == UNION {NewChunksOn(r) : r \in Recs}

\* C38: no drain loop is left running between two turns of the event loop, so at most one
\* runs at a time; the audioInput events enqueued are a subsequence of the chunks in the
\* order streamAudio was called with them; once a StreamSession is closed none of its
\* chunks is enqueued any more.
C38_AudioInCallOrder ==
    [][/\ \A s \in Recs : streams'[s].loops <= 1 /\ ~streams'[s].isProcessingAudio
       /\ \A r \in Recs : LET c == ChunksOf(sess'[r].log) IN
             \A i, j \in 1..Len(c) : i < j => c[i] < c[j]
       /\ \A s \in Recs : (streams[s].accepted # {} /\ ~streams[s].isActive)
             => NewChunks \cap streams'[s].accepted = {}]_vars

\* The drain loop went on from a timer, the StreamSession was closed with chunks
\* waiting, and a chunk given to it after the close was not enqueued.
C38_Witness ==
    \E s \in Recs :
        /\ streams[s].loops = 1
        /\ ~streams[s].isActive /\ Len(ChunksOf(Log(s))) > maxChunksPerBatch
        /\ \E c \in streams[s].accepted :
              /\ \A i \in 1..Len(ChunksOf(Log(s))) : ChunksOf(Log(s))[i] < c
              /\ \E d \in streams[s].accepted : d > c
        /\ streams[s].audioBufferQueue # <<>>

\* C34: forceCloseSession on a registered session that is not being cleaned up marks the
\* record inactive, fires closeSignal, and removes the id from the registry and from the
\* last-activity map; the record's queue, its open content and prompt IDs are as before,
\* nothing is enqueued (no contentEnd, promptEnd or sessionEnd), and no other record, task
\* or stream is touched.
C34_ForceCloseFrame ==
    LET r == activeSessions
        W1 == forceCloseSession(World)
    IN (r # 0 /\ ~sessionCleanupInProgress) =>
          /\ ~W1.sess[r].isActive /\ W1.sess[r].closeSignal
          /\ W1.activeSessions = 0 /\ W1.sessionLastActivity = "none"
          /\ ~W1.sessionCleanupInProgress
          /\ W1.sess[r].queue = sess[r].queue /\ W1.sess[r].log = sess[r].log
          /\ W1.sess[r].activeContentIds = sess[r].activeContentIds
          /\ W1.sess[r].activePromptIds = sess[r].activePromptIds
          /\ \A q \in Recs \ {r} : W1.sess[q] = sess[q]
          /\ W1.tasks = tasks /\ W1.streams = streams

\* The deadline force-closed a record that still had events queued, a prompt and a
\* content open: they are all still there.
C34_Witness ==
    \E r \in Recs : /\ sess[r].forceClosed = "deadline" /\ sess[r].closeSignal
                     /\ sess[r].queue # <<>> /\ sess[r].activeContentIds # {}
                     /\ sess[r].activePromptIds # {}
                     /\ \A i \in 1..Len(Log(r)) : Log(r)[i].kind # "sessionEnd"

\* C40: sessionInitialized {success: true} is emitted only for an initiation that
\* dispatched no error: when the upstream open failed or the response stream threw, the
\* client gets the error and no sessionInitialized for that initSession.
C40_NoSuccessAfterError ==
    \A h \in Inits : inits[h].outcome \in {"openfail", "readerror"} =>
        /\ Emitted("error", h) # {}
        /\ Emitted("sessionInitialized", h) = {}

\* Every way a record becomes inactive, against its consumer: stopAudio (sendSessionEnd),
\* the disconnect deadline (forceCloseSession), a second initSession (replacement by
\* createStreamSession), a failed open, and closeSession at shutdown, whose sequence
\* throws on a record the failed open left registered. The client sends its second
\* message once the first initiation has made its open call, SIGINT arrives once that
\* call has failed; no open call succeeds.
NextCancel ==
    \/ Msgs < CancelMsgs /\ (sent.init = 0 \/ inits[1].pc \in {"opening", "ack", "done"})
       /\ ClientInitSession(MaxInit)
    \/ Msgs < CancelMsgs /\ Established /\ ClientStopAudio(TdStop)
    \/ Msgs < CancelMsgs /\ Established /\ ClientDisconnect
    \/ Msgs < CancelMsgs /\ inits[1].pc \in {"ack", "done"} /\ Sigint
    \/ Shutdown
    \/ ShutdownExit
    \/ DisconnectDeadline
    \/ \E tid \in TaskIds : TaskTimer(tid)
    \/ InitSteps
    \/ \E h \in Inits : InitAck(h)
    \/ \E h \in Inits : OpenFail(h)
    \/ \E h \in Inits : ConsumerNext(h)
    \/ \E h \in Inits : ConsumerTimeout(h)

\* The wait timer of next() fires; nothing is assumed about further calls of next().
SpecCancel == Init /\ [][NextCancel]_vars /\ \A h \in Inits : WF_vars(ConsumerTimeout(h))

\* Consumer h reads a record that is inactive.
Cancelled(h) == IF RecOf(h) = 0 THEN FALSE ELSE ~sess[RecOf(h)].isActive

\* C35: once a record is inactive its consumer ends the sequence without yielding: a
\* call of next() returns the end at once, and a consumer suspended on the empty queue
\* eventually ends (unless the process exits first), also when closeSignal was not
\* fired.
C35_ConsumerEndsAfterInactive ==
    /\ [][\A h \in Inits : (Cancelled(h) /\ consumers'[h] # consumers[h]) =>
              /\ consumers'[h].state = "done"
              /\ consumers'[h].yielded = Yielded(h)]_vars
    /\ \A h \in Inits :
          (Cancelled(h) /\ consumers[h].state = "waiting")
              ~> (consumers[h].state = "done" \/ exited)

\* A consumer that had yielded everything enqueued on a record has ended, the record
\* having been replaced, which makes it inactive without firing closeSignal.
C35_Witness ==
    \E h \in Inits :
        /\ consumers[h].state = "done" /\ Len(Yielded(h)) > 0
        /\ Len(Yielded(h)) = Len(Log(RecOf(h))) /\ sess[RecOf(h)].queue = <<>>
        /\ ~sess[RecOf(h)].isActive /\ ~sess[RecOf(h)].closeSignal
        /\ sess[RecOf(h)].replaced

\* One initiation and its consumer, with audio arriving and a stopAudio at any moment:
\* events are enqueued before the consumer looks at the queue and while it is suspended.
NextWake ==
    \/ ClientInitSession(TdInit)
    \/ sent.init = 1 /\ ClientAudioInput(WakeAudio, 1, Payloads)
    \/ sent.init = 1 /\ ClientStopAudio(TdStop)
    \/ \E tid \in TaskIds : TaskTimer(tid)
    \/ InitSteps
    \/ \E h \in 1..TdInit : ConsumerNext(h)
    \/ \E h \in 1..TdInit : ConsumerTimeout(h)
    \/ \E h \in 1..TdInit : InitAck(h)

\* The upstream SDK goes on pulling the sequence it was given.
SpecWake == Init /\ [][NextWake]_vars /\ \A h \in 1..TdInit : WF_vars(ConsumerNext(h))

\* The record of consumer h is the active session: registered under the id and active.
Serving(h) ==
    IF RecOf(h) = 0 THEN FALSE
    ELSE sess[RecOf(h)].isActive /\ activeSessions = RecOf(h)

\* Consumer h has yielded every event enqueued on its record so far, in enqueue order.
YieldedAll(h) ==
    IF RecOf(h) = 0 THEN FALSE ELSE Yielded(h) = Log(RecOf(h))

\* C39: while a session is active and its consumer has not ended, events enqueued and not
\* yet yielded are yielded by that consumer, unless the session stops being active
\* first: no wakeup is lost, whether an event was enqueued before next() looked at the
\* queue or while next() was suspended on the empty queue.
C39_NoLostWakeup ==
    \A h \in 1..TdInit :
        (Serving(h) /\ consumers[h].state # "done" /\ ~YieldedAll(h))
            ~> (YieldedAll(h) \/ ~Serving(h))

\* A chunk enqueued while the consumer was suspended on the empty queue was yielded in
\* the same turn, the session being active still.
C39_Witness ==
    \E h \in 1..TdInit :
        /\ Serving(h) /\ consumers[h].state = "idle"
        /\ sess[RecOf(h)].queue = <<>>
        /\ Len(Yielded(h)) > 7 /\ Yielded(h)[Len(Yielded(h))].kind = "audioInput"
        /\ Yielded(h)[Len(Yielded(h))].data # Sentinel

====
